---- MODULE Spec2Model ----
(***************************************************************************)
(* State-machine model of the client-side PDF pipelines of the toolkit:    *)
(*   CompressPDF (src/src/App.jsx), SplitPDF (src/src/Components/          *)
(*   SplitPdf.jsx) and MergePDF (src/unnamed/part_001).                    *)
(*                                                                         *)
(* Each React component is a record of its useState fields.  An async      *)
(* handler is a process: one action for the synchronous prefix run by the  *)
(* click, then one action per await, each performing everything the code   *)
(* does up to the next await (JavaScript runs to completion between        *)
(* awaits).  setTimeout callbacks are pending timers that fire later.      *)
(***************************************************************************)
EXTENDS Integers, Sequences, FiniteSets

\* ------------------------------------------------------------------ bounds
MaxPages == 2    \* pages of the largest input document
MaxRuns == 1     \* runs of one component in flight at once (one more in
                 \* the ...Overlap specifications)
MaxItems == 2    \* files ever added to the merge list
MaxDrop == 2     \* files of one drop
MaxPending == 2  \* asynchronous activities of one component outstanding at
                 \* once: runs in flight, pending timers, page-count reads
MaxUrls == 3     \* object URLs ImageReduce creates

\* ------------------------------------------------------------- value shapes
null == [null |-> TRUE]
Some(v) == [val |-> v]

\* A File as the handlers see it: MIME type, name extension, size, and what
\* the PDF libraries will find in its bytes.
PdfFile(n, bad, ok) ==
    [type |-> "application/pdf", ext |-> ".pdf", size |-> n + 1,
     decodable |-> ok, numPages |-> n, badPage |-> bad, encrypted |-> FALSE]

GoodFiles == {PdfFile(n, 0, TRUE) : n \in {1, MaxPages}}
BadPageFiles == {PdfFile(MaxPages, k, TRUE) : k \in {1, MaxPages}}
CorruptFile == PdfFile(0, 0, FALSE)
EmptyFile == [type |-> "application/pdf", ext |-> ".pdf", size |-> 0,
              decodable |-> FALSE, numPages |-> 0, badPage |-> 0,
              encrypted |-> FALSE]
ImageFile == [type |-> "image/png", ext |-> ".png", size |-> 1,
              decodable |-> FALSE, numPages |-> 0, badPage |-> 0,
              encrypted |-> FALSE]
Files == GoodFiles \cup BadPageFiles \cup {CorruptFile, EmptyFile, ImageFile}

\* An encrypted PDF that opens without a password: pdf-lib loads it with
\* { ignoreEncryption: true } and throws EncryptedPDFError without.
EncryptedFile == [PdfFile(1, 0, TRUE) EXCEPT !.encrypted = TRUE]

\* A PDF that pdf-lib's PDFDocument.load rejects and pdf.js's getDocument
\* opens (for one, pdf-lib throws when it finds no %PDF- header, pdf.js
\* goes on without one).
RepairableFile == PdfFile(1, 0, FALSE)

\* Whether pdfjsLib.getDocument({ data }).promise resolves for f's bytes.
PdfjsOpens(f) == f.decodable \/ f = RepairableFile

isPdfFile(f) == f.type = "application/pdf" \/ f.ext = ".pdf"

\* Source page k of file f, and the sequence of all its pages.
SrcPage(f, k) == [numPages |-> f.numPages, badPage |-> f.badPage, page |-> k]
AllPages(f) == [k \in 1..f.numPages |-> SrcPage(f, k)]

\* Progress texts.  `Rendering page p/n...` carries its numbers.
Msg(s) == [text |-> s, cur |-> 0, tot |-> 0]
PageMsg(s, p, n) == [text |-> s, cur |-> p, tot |-> n]

\* A Blob and the object URL created for it.  The blob's byte size is
\* abstracted to grow with its page count.  src is not program state: it
\* records the input the run that created the URL was started on.
Blob(pages) == [pages |-> pages, size |-> Len(pages) + 1]
ObjectURL(src, blob) == [src |-> src, blob |-> blob]

\* Run records: those a specification lets start, and one more that only
\* the ...Overlap specifications let start.
Runs == 1..MaxRuns
ExtraRun == MaxRuns + 1
Slots == 1..ExtraRun

VARIABLES
    compressPDF,  \* CompressPDF's useState fields
    cRuns,        \* compress() invocations: captured file, position, outPdf
    cTimers,      \* pending setTimeout callbacks of compress()'s finally
    cReads,       \* pending readPdf() calls (the file each is reading)
    splitPDF,     \* SplitPDF's useState fields
    sRuns,        \* split() invocations: captured file, position, results
    sTimers,      \* pending setTimeout callbacks of split()'s finally
    sReads,       \* pending readPdfPages() calls
    mergePDF,     \* MergePDF's useState fields and dragIndexRef
    mRun,         \* the mergePDFs() invocation: captured items, position
    mTimers,      \* pending setTimeout callbacks of mergePDFs()'s finally
    mLoads,       \* onDrop()'s background page-count loops (items left)
    nextId,       \* ids handed out so far (ids are unique)
    raster,       \* the page in compressViaCanvas's loop body: viewport,
                  \* scale and canvas
    server,       \* server/index.js: cachedExamSizes, lookups, response
    imageReduce,  \* ImageReduce's exam-size state and its fetchSizes effect
    removebg,     \* Removebg's useState fields
    rReads,       \* Removebg's pending FileReader reads
    resizer,      \* ImageReduce's image state and its object URLs
    upload        \* the handleUpload() invocation

compressVars == <<compressPDF, cRuns, cTimers, cReads>>
splitVars == <<splitPDF, sRuns, sTimers, sReads>>
mergeVars == <<mergePDF, mRun, mTimers, mLoads, nextId>>
otherVars ==
    <<raster, server, imageReduce, removebg, rReads, resizer, upload>>
pdfVars == <<compressVars, splitVars, mergeVars>>
vars == <<compressPDF, cRuns, cTimers, cReads, splitPDF, sRuns, sTimers, sReads,
          mergePDF, mRun, mTimers, mLoads, nextId, raster, server, imageReduce,
          removebg, rReads, resizer, upload>>

\* ------------------------------------------------------------ CompressPDF
IdleRun == [pc |-> "idle", file |-> null, p |-> 0, outPdf |-> <<>>,
            abandoned |-> FALSE]

CompressInit ==
    /\ compressPDF = [file |-> null, pages |-> null, isProcessing |-> FALSE,
                      progress |-> Msg(""), error |-> "", resultUrl |-> null,
                      resultSize |-> null, originalSize |-> null,
                      pageProgress |-> [current |-> 0, total |-> 0]]
    /\ cRuns = [r \in Slots |-> IdleRun]
    /\ cTimers = 0
    /\ cReads = {}

CInFlight(r) == cRuns[r].pc \notin {"idle", "done", "failed"}
CRunsInFlight == {r \in Slots : CInFlight(r)}
CPending == Cardinality(CRunsInFlight) + cTimers + Cardinality(cReads)

\* handleFileSet(f), and readPdf(f) up to its first await when it returned
\* true (onFileInputChange and handleDrop are the same code).
CompressSelectFile(f) ==
    /\ UNCHANGED <<splitVars, mergeVars, otherVars>>
    /\ LET cleared == [compressPDF EXCEPT !.error = "", !.resultUrl = null,
                          !.resultSize = null, !.pages = null,
                          !.pageProgress = [current |-> 0, total |-> 0]]
       IN  IF ~isPdfFile(f)
           THEN /\ compressPDF' = [cleared EXCEPT
                                     !.error = "Only PDF files are supported."]
                /\ UNCHANGED cReads
           ELSE IF f.size = 0
           THEN /\ compressPDF' = [cleared EXCEPT
                                     !.error = "Selected file is empty."]
                /\ UNCHANGED cReads
           ELSE /\ f \notin cReads
                /\ CPending < MaxPending
                /\ compressPDF' = [cleared EXCEPT !.file = f,
                                     !.originalSize = Some(f.size),
                                     !.progress = Msg("Reading PDF...")]
                /\ cReads' = cReads \cup {f}
    /\ UNCHANGED <<cRuns, cTimers>>

\* readPdf(f) after its awaits: the page count, or the catch.
CompressReadPdfDone(f) ==
    /\ UNCHANGED <<splitVars, mergeVars, otherVars>>
    /\ f \in cReads
    /\ cReads' = cReads \ {f}
    /\ compressPDF' =
         IF f.decodable
         THEN [compressPDF EXCEPT !.pages = Some(f.numPages),
                                  !.progress = Msg("")]
         ELSE [compressPDF EXCEPT
                 !.error = "Failed to read PDF file. The file may be corrupted or unsupported.",
                 !.progress = Msg("")]
    /\ UNCHANGED <<cRuns, cTimers>>

\* The page the canvas pipeline puts in outPdf for source page p of f:
\* the JPEG of its rendering, drawn on a page of the image's size.
RasterPage(f, p) == [image |-> SrcPage(f, p)]

CompressFailedMsg ==
    "Compression failed. Try a different PDF or use server-side tools for heavier compression."

\* The head of `for (let p = 1; p <= pdf.numPages; ++p)` entered with p, up
\* to the next await: the loop body's two setters and getPage, or, past the
\* last page, setProgress("Finalizing...") and outPdf.save().
CompressLoopHead(r, p, outPdf) ==
    LET n == cRuns[r].file.numPages
    IN  IF p <= n
        THEN /\ compressPDF' = [compressPDF EXCEPT
                 !.progress = PageMsg("Rendering page", p, n),
                 !.pageProgress = [current |-> p, total |-> n]]
             /\ cRuns' = [cRuns EXCEPT ![r].pc = "render", ![r].p = p,
                                       ![r].outPdf = outPdf]
        ELSE /\ compressPDF' = [compressPDF EXCEPT
                 !.progress = Msg("Finalizing...")]
             /\ cRuns' = [cRuns EXCEPT ![r].pc = "save", ![r].p = p,
                                       ![r].outPdf = outPdf]

\* A run that ended: its closure is gone, only how it ended is kept.
EndedRun(how) == [IdleRun EXCEPT !.pc = how]

\* Mutant: the catch offers what outPdf holds so far.
CompressCatch_Partial(r) ==
    /\ compressPDF' = [compressPDF EXCEPT
           !.resultUrl = ObjectURL(cRuns[r].file, Blob(cRuns[r].outPdf)),
           !.resultSize = Some(Blob(cRuns[r].outPdf).size),
           !.isProcessing = FALSE]
    /\ cRuns' = [cRuns EXCEPT ![r] = EndedRun("failed")]
    /\ cTimers' = cTimers + 1

\* compress()'s catch and finally.
CompressCatch(r) ==
    /\ compressPDF' = [compressPDF EXCEPT !.error = CompressFailedMsg,
                                          !.isProcessing = FALSE]
    /\ cRuns' = [cRuns EXCEPT ![r] = EndedRun("failed")]
    /\ cTimers' = cTimers + 1

\* compress() after compressViaCanvas returned outBlob, and its finally.
CompressPublish(r, outBlob) ==
    /\ compressPDF' = [compressPDF EXCEPT
           !.resultUrl = ObjectURL(cRuns[r].file, outBlob),
           !.resultSize = Some(outBlob.size),
           !.progress = Msg("Completed"),
           !.isProcessing = FALSE]
    /\ cRuns' = [cRuns EXCEPT ![r] = EndedRun("done")]
    /\ cTimers' = cTimers + 1

\* Click on "Optimize PDF" (enabled unless !file || isProcessing): compress()
\* up to compressViaCanvas's first await.  The callback captures `file`.
compress(r) ==
    /\ UNCHANGED <<splitVars, mergeVars, otherVars>>
    /\ compressPDF.file # null
    /\ ~compressPDF.isProcessing
    /\ ~CInFlight(r)
    /\ \A q \in Slots : q < r => CInFlight(q)
    /\ CPending < MaxPending
    /\ compressPDF' = [compressPDF EXCEPT !.error = "", !.isProcessing = TRUE,
           !.progress = Msg("Starting compression..."),
           !.resultUrl = null, !.resultSize = null,
           !.pageProgress = [current |-> 0, total |-> 0]]
    /\ cRuns' = [cRuns EXCEPT ![r] = [IdleRun EXCEPT !.pc = "load",
                                        !.file = compressPDF.file]]
    /\ UNCHANGED <<cTimers, cReads>>

\* fileObj.arrayBuffer() and pdfjsLib.getDocument(...).promise settle.
CompressLoad(r) ==
    /\ UNCHANGED <<splitVars, mergeVars, otherVars>>
    /\ cRuns[r].pc = "load"
    /\ IF PdfjsOpens(cRuns[r].file)
       THEN /\ compressPDF' = [compressPDF EXCEPT !.pageProgress =
                   [current |-> 0, total |-> cRuns[r].file.numPages]]
            /\ cRuns' = [cRuns EXCEPT ![r].pc = "create"]
            /\ UNCHANGED cTimers
       ELSE CompressCatch(r)
    /\ UNCHANGED cReads

\* Mutant: the loop starts at page 2.
CompressCreate_SkipFirst(r) ==
    /\ UNCHANGED <<splitVars, mergeVars, otherVars>>
    /\ cRuns[r].pc = "create"
    /\ CompressLoopHead(r, 2, <<>>)
    /\ UNCHANGED <<cTimers, cReads>>

\* PDFDocument.create() settles; the loop starts.
CompressCreate(r) ==
    /\ UNCHANGED <<splitVars, mergeVars, otherVars>>
    /\ cRuns[r].pc = "create"
    /\ CompressLoopHead(r, 1, <<>>)
    /\ UNCHANGED <<cTimers, cReads>>

\* Mutant: page p + 1 is started as soon as page p is rendered, before its
\* image is embedded and added.
CompressRender_Ahead(r) ==
    /\ UNCHANGED <<splitVars, mergeVars, otherVars>>
    /\ cRuns[r].pc = "render"
    /\ \/ /\ CompressLoopHead(r, cRuns[r].p + 1, cRuns[r].outPdf)
          /\ UNCHANGED cTimers
       \/ /\ cRuns[r].p = cRuns[r].file.badPage
          /\ CompressCatch(r)
    /\ UNCHANGED cReads

\* pdf.getPage(p) and page.render(renderContext).promise settle (no state
\* is read or written between the two awaits).  A damaged page throws here
\* or when its image is embedded.
CompressRender(r) ==
    /\ UNCHANGED <<splitVars, mergeVars, otherVars>>
    /\ cRuns[r].pc = "render"
    /\ \/ /\ cRuns' = [cRuns EXCEPT ![r].pc = "embed"]
          /\ UNCHANGED <<compressPDF, cTimers>>
       \/ /\ cRuns[r].p = cRuns[r].file.badPage
          /\ CompressCatch(r)
    /\ UNCHANGED cReads

\* Mutant: the loop does not advance p.
CompressEmbed_Repeat(r) ==
    /\ UNCHANGED <<splitVars, mergeVars, otherVars>>
    /\ cRuns[r].pc = "embed"
    /\ IF cRuns[r].p = cRuns[r].file.badPage
       THEN CompressCatch(r)
       ELSE /\ CompressLoopHead(r, cRuns[r].p, cRuns[r].outPdf)
            /\ UNCHANGED cTimers
    /\ UNCHANGED cReads

\* outPdf.embedJpg(bytes) settles: addPage, drawImage, ++p, the loop head.
CompressEmbed(r) ==
    /\ UNCHANGED <<splitVars, mergeVars, otherVars>>
    /\ cRuns[r].pc = "embed"
    /\ IF cRuns[r].p = cRuns[r].file.badPage
       THEN CompressCatch(r)
       ELSE /\ CompressLoopHead(r, cRuns[r].p + 1,
                   Append(cRuns[r].outPdf, RasterPage(cRuns[r].file, cRuns[r].p)))
            /\ UNCHANGED cTimers
    /\ UNCHANGED cReads

\* outPdf.save() settles: the blob is returned and published, or save throws.
CompressSave(r) ==
    /\ UNCHANGED <<splitVars, mergeVars, otherVars>>
    /\ cRuns[r].pc = "save"
    /\ \/ CompressPublish(r, Blob(cRuns[r].outPdf))
       \/ CompressCatch(r)
    /\ UNCHANGED cReads

\* The finally's setTimeout callback, 1200 ms after a run ended.
CompressTimer ==
    /\ UNCHANGED <<splitVars, mergeVars, otherVars>>
    /\ cTimers > 0
    /\ cTimers' = cTimers - 1
    /\ compressPDF' = [compressPDF EXCEPT !.progress = Msg(""),
                          !.pageProgress = [current |-> 0, total |-> 0]]
    /\ UNCHANGED <<cRuns, cReads>>

\* Click on "Reset".  A run in flight is not told: it is only marked as
\* abandoned by the user (abandoned is not program state).
CompressReset ==
    /\ UNCHANGED <<splitVars, mergeVars, otherVars>>
    /\ compressPDF' = [compressPDF EXCEPT !.file = null, !.pages = null,
           !.resultUrl = null, !.resultSize = null, !.isProcessing = FALSE,
           !.progress = Msg(""), !.error = "", !.originalSize = null,
           !.pageProgress = [current |-> 0, total |-> 0]]
    /\ cRuns' = [r \in Slots |-> IF CInFlight(r)
                                THEN [cRuns[r] EXCEPT !.abandoned = TRUE]
                                ELSE cRuns[r]]
    /\ UNCHANGED <<cTimers, cReads>>

CompressRunStep(r) ==
    \/ CompressLoad(r)
    \/ CompressCreate(r)
    \/ CompressRender(r)
    \/ CompressEmbed(r)
    \/ CompressSave(r)

CompressNext ==
    \/ \E f \in Files : CompressSelectFile(f)
    \/ \E f \in Files : CompressReadPdfDone(f)
    \/ \E r \in Runs : compress(r)
    \/ \E r \in Slots : CompressRunStep(r)
    \/ CompressTimer
    \/ CompressReset

\* The same, with compress() also able to start while MaxRuns runs are in
\* flight.
CompressOverlapNext ==
    \/ CompressNext
    \/ compress(ExtraRun)

\* The same, with a file among the inputs that only pdf.js opens.
CompressRepairNext ==
    \/ CompressNext
    \/ CompressSelectFile(RepairableFile)
    \/ CompressReadPdfDone(RepairableFile)

\* --------------------------------------------------------------- SplitPDF
SplitMaxBytes == 100 * 1024 * 1024

SplitInit ==
    /\ splitPDF = [file |-> null, pages |-> null, isSplitting |-> FALSE,
                   progress |-> Msg(""), error |-> "", splitPages |-> null,
                   mounted |-> TRUE, liveUrls |-> {}]
    /\ sRuns = [r \in Runs |-> [pc |-> "idle", file |-> null, i |-> 0,
                                results |-> <<>>]]
    /\ sTimers = 0
    /\ sReads = {}

\* mounted and liveUrls are not useState fields: whether the component is
\* mounted, and the object URLs created by split() and not revoked so far.
\* The URLs of a splitPages value or of a results array.
UrlsOf(list) == {list[k].url : k \in 1..Len(list)}

\* liveUrls once the URLs of state.splitPages are revoked, as the cleanup of
\* the [splitPages] effect and reset's updater do.
RevokeSplitPages(state) ==
    IF state.splitPages = null THEN state.liveUrls
    ELSE state.liveUrls \ UrlsOf(state.splitPages.val)

\* A state update made by a continuation of an async function: nothing
\* once the component is unmounted, but for the URLs created meanwhile.
SplitSet(new) ==
    IF splitPDF.mounted THEN new
    ELSE [splitPDF EXCEPT !.liveUrls = new.liveUrls]

SInFlight(r) == sRuns[r].pc \notin {"idle", "done", "failed"}
SRunsInFlight == {r \in Runs : SInFlight(r)}
SPending == Cardinality(SRunsInFlight) + sTimers + Cardinality(sReads)

\* handleFileSet(f), and readPdfPages(f) up to its first await when it
\* returned true.  The cleanup of the [splitPages] effect revokes the URLs
\* of the list that is replaced.
SplitSelectFile(f) ==
    /\ splitPDF.mounted
    /\ LET cleared == [splitPDF EXCEPT !.error = "", !.splitPages = null,
                          !.pages = null,
                          !.liveUrls = RevokeSplitPages(splitPDF)]
       IN  IF ~isPdfFile(f)
           THEN /\ splitPDF' = [cleared EXCEPT
                                  !.error = "Only PDF files are supported."]
                /\ UNCHANGED sReads
           ELSE IF f.size = 0
           THEN /\ splitPDF' = [cleared EXCEPT
                                  !.error = "Selected file is empty."]
                /\ UNCHANGED sReads
           ELSE IF f.size > SplitMaxBytes
           THEN /\ splitPDF' = [cleared EXCEPT
                                  !.error = "File must be under 100 MB."]
                /\ UNCHANGED sReads
           ELSE /\ f \notin sReads
                /\ SPending < MaxPending
                /\ splitPDF' = [cleared EXCEPT !.file = f,
                                  !.progress = Msg("Reading PDF...")]
                /\ sReads' = sReads \cup {f}
    /\ UNCHANGED <<sRuns, sTimers>>
    /\ UNCHANGED <<compressVars, mergeVars, otherVars>>

\* readPdfPages(f) after its awaits.
SplitReadPdfPagesDone(f) ==
    /\ f \in sReads
    /\ sReads' = sReads \ {f}
    /\ splitPDF' = SplitSet(
         IF f.decodable
         THEN [splitPDF EXCEPT !.pages = Some(f.numPages),
                               !.progress = Msg("")]
         ELSE [splitPDF EXCEPT
                 !.error = "Failed to read PDF. The file may be corrupted.",
                 !.progress = Msg("")])
    /\ UNCHANGED <<sRuns, sTimers>>
    /\ UNCHANGED <<compressVars, mergeVars, otherVars>>

SplitFailedMsg == "Failed to split PDF. Try a different file."

\* Mutant: pageNum is the zero-based index.
SplitEntry_ZeroBased(f, i) ==
    [url |-> ObjectURL(f, Blob(<<SrcPage(f, i + 1)>>)), pageNum |-> i,
     size |-> Blob(<<SrcPage(f, i + 1)>>).size]

\* What results.push(...) adds for pageIndices[i] = i: the URL of a
\* one-page document holding the copy of that page, pageNum and size.
SplitEntry(f, i) ==
    [url |-> ObjectURL(f, Blob(<<SrcPage(f, i + 1)>>)), pageNum |-> i + 1,
     size |-> Blob(<<SrcPage(f, i + 1)>>).size]

SplitEnded(how) == [pc |-> how, file |-> null, i |-> 0, results |-> <<>>]

\* Mutant: the catch emits the pages produced before the failure.
SplitCatch_Partial(r) ==
    /\ splitPDF' = SplitSet([splitPDF EXCEPT !.error = SplitFailedMsg,
                                    !.splitPages = Some(sRuns[r].results),
                                    !.isSplitting = FALSE])
    /\ sRuns' = [sRuns EXCEPT ![r] = SplitEnded("failed")]
    /\ sTimers' = sTimers + 1

\* split()'s catch and finally; results goes out of scope.
SplitCatch(r) ==
    /\ splitPDF' = SplitSet([splitPDF EXCEPT !.error = SplitFailedMsg,
                                             !.isSplitting = FALSE])
    /\ sRuns' = [sRuns EXCEPT ![r] = SplitEnded("failed")]
    /\ sTimers' = sTimers + 1

\* The head of `for (let i = 0; i < pageIndices.length; i++)` entered with
\* i, up to the next await: setProgress and PDFDocument.create(), or, past
\* the last page, setSplitPages(results), "Completed" and the finally.
\* The URLs in results have been created.
SplitLoopHead(r, i, results) ==
    LET n == sRuns[r].file.numPages
    IN  IF i < n
        THEN /\ splitPDF' = SplitSet([splitPDF EXCEPT
                 !.progress = PageMsg("Splitting page", i + 1, n),
                 !.liveUrls = splitPDF.liveUrls \cup UrlsOf(results)])
             /\ sRuns' = [sRuns EXCEPT ![r].pc = "page", ![r].i = i,
                                       ![r].results = results]
             /\ UNCHANGED sTimers
        ELSE /\ splitPDF' = SplitSet([splitPDF EXCEPT
                 !.splitPages = Some(results),
                 !.progress = Msg("Completed"), !.isSplitting = FALSE,
                 !.liveUrls = RevokeSplitPages(splitPDF) \cup UrlsOf(results)])
             /\ sRuns' = [sRuns EXCEPT ![r] = SplitEnded("done")]
             /\ sTimers' = sTimers + 1

\* Click on "Split PDF" (enabled unless !file || isSplitting): split() up to
\* its first await.
split(r) ==
    /\ splitPDF.mounted
    /\ splitPDF.file # null
    /\ ~splitPDF.isSplitting
    /\ ~SInFlight(r)
    /\ \A q \in Runs : q < r => SInFlight(q)
    /\ SPending < MaxPending
    /\ splitPDF' = [splitPDF EXCEPT !.error = "", !.isSplitting = TRUE,
           !.progress = Msg("Loading PDF..."), !.splitPages = null,
           !.liveUrls = RevokeSplitPages(splitPDF)]
    /\ sRuns' = [sRuns EXCEPT ![r] = [pc |-> "load", file |-> splitPDF.file,
                                      i |-> 0, results |-> <<>>]]
    /\ UNCHANGED <<sTimers, sReads>>
    /\ UNCHANGED <<compressVars, mergeVars, otherVars>>

\* file.arrayBuffer() and PDFDocument.load(...) settle; the loop starts.
SplitLoad(r) ==
    /\ sRuns[r].pc = "load"
    /\ IF sRuns[r].file.decodable
       THEN SplitLoopHead(r, 0, <<>>)
       ELSE SplitCatch(r)
    /\ UNCHANGED sReads
    /\ UNCHANGED <<compressVars, mergeVars, otherVars>>

\* Mutant: a page that cannot be copied is skipped and the loop goes on.
SplitPage_SkipFailed(r) ==
    /\ sRuns[r].pc = "page"
    /\ IF sRuns[r].i + 1 = sRuns[r].file.badPage
       THEN SplitLoopHead(r, sRuns[r].i + 1, sRuns[r].results)
       ELSE SplitLoopHead(r, sRuns[r].i + 1,
                Append(sRuns[r].results, SplitEntry(sRuns[r].file, sRuns[r].i)))
    /\ UNCHANGED sReads
    /\ UNCHANGED <<compressVars, mergeVars, otherVars>>

\* PDFDocument.create(), newPdf.copyPages(...) and newPdf.save() settle for
\* page i (no state is read or written between these awaits): one of them
\* throws on a damaged page; otherwise results.push, i++ and the loop head.
SplitPage(r) ==
    /\ sRuns[r].pc = "page"
    /\ IF sRuns[r].i + 1 = sRuns[r].file.badPage
       THEN SplitCatch(r)
       ELSE SplitLoopHead(r, sRuns[r].i + 1,
                Append(sRuns[r].results, SplitEntry(sRuns[r].file, sRuns[r].i)))
    /\ UNCHANGED sReads
    /\ UNCHANGED <<compressVars, mergeVars, otherVars>>

\* The finally's setTimeout callback, 1500 ms after a run ended.
SplitTimer ==
    /\ sTimers > 0
    /\ sTimers' = sTimers - 1
    /\ splitPDF' = SplitSet([splitPDF EXCEPT !.progress = Msg("")])
    /\ UNCHANGED <<sRuns, sReads>>
    /\ UNCHANGED <<compressVars, mergeVars, otherVars>>

\* Click on "Reset".
SplitReset ==
    /\ splitPDF.mounted
    /\ splitPDF' = [splitPDF EXCEPT !.file = null, !.pages = null,
           !.splitPages = null, !.isSplitting = FALSE,
           !.progress = Msg(""), !.error = "",
           !.liveUrls = RevokeSplitPages(splitPDF)]
    /\ UNCHANGED <<sRuns, sTimers, sReads>>
    /\ UNCHANGED <<compressVars, mergeVars, otherVars>>

\* The component unmounts: the cleanup of the [splitPages] effect runs.
SplitUnmount ==
    /\ splitPDF.mounted
    /\ splitPDF' = [splitPDF EXCEPT !.mounted = FALSE,
                       !.liveUrls = RevokeSplitPages(splitPDF)]
    /\ UNCHANGED <<sRuns, sTimers, sReads>>
    /\ UNCHANGED <<compressVars, mergeVars, otherVars>>

SplitNext ==
    \/ \E f \in Files : SplitSelectFile(f)
    \/ \E f \in Files : SplitReadPdfPagesDone(f)
    \/ \E r \in Runs : split(r)
    \/ \E r \in Runs : SplitLoad(r)
    \/ \E r \in Runs : SplitPage(r)
    \/ SplitTimer
    \/ SplitReset

\* The same with the unmount.  The continuations of split() and of
\* readPdfPages() and the timer callback run once their awaits settle; the
\* component is unmounted in the end.
SplitUnmountNext == SplitNext \/ SplitUnmount

SplitFairness ==
    /\ \A f \in Files : WF_vars(SplitReadPdfPagesDone(f))
    /\ \A r \in Runs : WF_vars(SplitLoad(r))
    /\ \A r \in Runs : WF_vars(SplitPage(r))
    /\ WF_vars(SplitTimer)
    /\ WF_vars(SplitUnmount)

\* --------------------------------------------------------------- MergePDF
MAX_FILES == 20
MAX_SIZE_BYTES == 200 * 1024 * 1024

\* A PDF whose File object carries no MIME type.
UntypedPdf == [type |-> "", ext |-> ".pdf", size |-> 2,
               decodable |-> TRUE, numPages |-> 1, badPage |-> 0,
               encrypted |-> FALSE]

MergeFiles == GoodFiles \cup {PdfFile(MaxPages, 1, TRUE), CorruptFile,
                              EmptyFile, ImageFile, UntypedPdf}

\* useDropzone's accept: {"application/pdf": [".pdf"]} lets a file through
\* on its MIME type or on its extension.
DropzoneAccepts(f) == f.type = "application/pdf" \/ f.ext = ".pdf"

\* The acceptedFiles useDropzone hands to onDrop: with multiple: true and
\* maxFiles: MAX_FILES, a drop of more accepted files than maxFiles is
\* rejected whole and onDrop gets an empty list.
DropzoneAccepted(dropped) ==
    LET accepted == SelectSeq(dropped, DropzoneAccepts)
    IN  IF Len(accepted) > MAX_FILES THEN <<>> ELSE accepted

IdleMerge == [pc |-> "idle", items |-> <<>>, i |-> 0, mergedDoc |-> <<>>]

MergeInit ==
    /\ mergePDF = [items |-> <<>>, isProcessing |-> FALSE, mergedUrl |-> null,
                   error |-> "", progress |-> Msg(""), dragIndexRef |-> null]
    /\ mRun = IdleMerge
    /\ mTimers = 0
    /\ mLoads = {}
    /\ nextId = 0

\* What arr.splice(from, 1) hands back when from is past the end.
undefined == [undefined |-> TRUE]

\* The list renders (key={it.id}, it.name, ...) only while every entry is an
\* item; with an undefined entry the render throws and, there being no error
\* boundary, React unmounts the tree: no handler of the component runs again.
Mounted == \A k \in 1..Len(mergePDF.items) : mergePDF.items[k] # undefined

MInFlight == mRun.pc \notin {"idle", "done", "failed"}
MPending == (IF MInFlight THEN 1 ELSE 0) + mTimers + Cardinality(mLoads)

\* onDrop's loop over acceptedFiles from position k: the files gathered in
\* newFiles and the last error set.  len is items.length of the render the
\* callback was made in.
RECURSIVE DropScan(_, _, _, _, _)
DropScan(acceptedFiles, k, len, newFiles, err) ==
    IF k > Len(acceptedFiles) THEN [newFiles |-> newFiles, error |-> err]
    ELSE LET f == acceptedFiles[k]
         IN  IF len + Len(newFiles) >= MAX_FILES
             THEN [newFiles |-> newFiles,
                   error |-> "Cannot add more than 20 files."]
             ELSE IF f.type # "application/pdf"
             THEN DropScan(acceptedFiles, k + 1, len, newFiles,
                           "Only PDF files are allowed.")
             ELSE IF f.size <= 0
             THEN DropScan(acceptedFiles, k + 1, len, newFiles,
                           "File seems empty.")
             ELSE DropScan(acceptedFiles, k + 1, len,
                      Append(newFiles, [id |-> nextId + Len(newFiles) + 1,
                                        file |-> f, pages |-> null]),
                      err)

\* onDrop(acceptedFiles) up to the first await of its page-count loop.
onDrop(acceptedFiles) ==
    /\ Mounted
    /\ LET scan == DropScan(acceptedFiles, 1, Len(mergePDF.items), <<>>, "")
       IN  /\ nextId + Len(scan.newFiles) <= MaxItems
           /\ nextId' = nextId + Len(scan.newFiles)
           /\ IF Len(scan.newFiles) = 0
              THEN /\ mergePDF' = [mergePDF EXCEPT !.error = scan.error]
                   /\ UNCHANGED mLoads
              ELSE /\ MPending < MaxPending
                   /\ mergePDF' = [mergePDF EXCEPT !.error = scan.error,
                          !.items = mergePDF.items \o scan.newFiles]
                   /\ mLoads' = mLoads \cup {scan.newFiles}
    /\ UNCHANGED <<mRun, mTimers>>
    /\ UNCHANGED <<compressVars, splitVars, otherVars>>

\* One turn of a page-count loop: arrayBuffer() and PDFDocument.load(...,
\* {ignoreEncryption: true}) settle for its next file; setItems maps the
\* item with that id, if it is still listed.
MergeLoadPages(q) ==
    /\ Mounted
    /\ q \in mLoads
    /\ LET nf == Head(q)
           n == IF nf.file.decodable THEN nf.file.numPages ELSE 0
       IN  mergePDF' = [mergePDF EXCEPT !.items =
               [k \in 1..Len(mergePDF.items) |->
                   IF mergePDF.items[k].id = nf.id
                   THEN [mergePDF.items[k] EXCEPT !.pages = Some(n)]
                   ELSE mergePDF.items[k]]]
    /\ mLoads' = (mLoads \ {q}) \cup (IF Len(q) > 1 THEN {Tail(q)} ELSE {})
    /\ UNCHANGED <<mRun, mTimers, nextId>>
    /\ UNCHANGED <<compressVars, splitVars, otherVars>>

\* arr.splice(from, 1) followed by arr.splice(to, 0, item), zero-based as
\* in the code: past the end the first splice removes nothing and yields
\* undefined, and the second inserts at the end.
Splice(arr, from, to) ==
    LET inside == from < Len(arr)
        item == IF inside THEN arr[from + 1] ELSE undefined
        rest == IF inside
                THEN SubSeq(arr, 1, from) \o SubSeq(arr, from + 2, Len(arr))
                ELSE arr
        at == IF to < Len(rest) THEN to ELSE Len(rest)
    IN  SubSeq(rest, 1, at) \o <<item>> \o SubSeq(rest, at + 1, Len(rest))

\* moveItem(from, to).
moveItem(from, to) ==
    mergePDF' = [mergePDF EXCEPT !.items = Splice(mergePDF.items, from, to)]

\* The "Move up" and "Move down" buttons of row idx.
MergeMoveUp(idx) ==
    /\ Mounted
    /\ idx \in 0..(Len(mergePDF.items) - 1)
    /\ idx > 0
    /\ moveItem(idx, idx - 1)
    /\ UNCHANGED <<mRun, mTimers, mLoads, nextId>>
    /\ UNCHANGED <<compressVars, splitVars, otherVars>>

MergeMoveDown(idx) ==
    /\ Mounted
    /\ idx \in 0..(Len(mergePDF.items) - 1)
    /\ idx < Len(mergePDF.items) - 1
    /\ moveItem(idx, idx + 1)
    /\ UNCHANGED <<mRun, mTimers, mLoads, nextId>>
    /\ UNCHANGED <<compressVars, splitVars, otherVars>>

\* removeItem(id) from the row's "Remove" button.
removeItem(id) ==
    /\ Mounted
    /\ \E k \in 1..Len(mergePDF.items) : mergePDF.items[k].id = id
    /\ mergePDF' = [mergePDF EXCEPT !.items =
           SelectSeq(mergePDF.items, LAMBDA it : it.id # id)]
    /\ UNCHANGED <<mRun, mTimers, mLoads, nextId>>
    /\ UNCHANGED <<compressVars, splitVars, otherVars>>

\* onDragStart(e, index) on row index.
onDragStart(index) ==
    /\ Mounted
    /\ index \in 0..(Len(mergePDF.items) - 1)
    /\ mergePDF' = [mergePDF EXCEPT !.dragIndexRef = Some(index)]
    /\ UNCHANGED <<mRun, mTimers, mLoads, nextId>>
    /\ UNCHANGED <<compressVars, splitVars, otherVars>>

\* onDropItem(e, index): a drop event on row index, whatever is dragged.
onDropItem(index) ==
    /\ Mounted
    /\ index \in 0..(Len(mergePDF.items) - 1)
    /\ LET from == mergePDF.dragIndexRef
       IN  IF from = null \/ from.val = index
           THEN UNCHANGED mergePDF
           ELSE mergePDF' = [mergePDF EXCEPT
                    !.items = Splice(mergePDF.items, from.val, index),
                    !.dragIndexRef = null]
    /\ UNCHANGED <<mRun, mTimers, mLoads, nextId>>
    /\ UNCHANGED <<compressVars, splitVars, otherVars>>

MergeFailedMsg == "Failed to merge PDFs. Try re-uploading the files."

\* Mutant: the catch publishes the pages copied so far.
MergeCatch_Partial ==
    /\ mergePDF' = [mergePDF EXCEPT !.error = MergeFailedMsg,
           !.mergedUrl = ObjectURL(mRun.items, Blob(mRun.mergedDoc)),
           !.isProcessing = FALSE]
    /\ mRun' = [IdleMerge EXCEPT !.pc = "failed"]
    /\ mTimers' = mTimers + 1

\* mergePDFs()'s catch and finally.
MergeCatch ==
    /\ mergePDF' = [mergePDF EXCEPT !.error = MergeFailedMsg,
                                    !.isProcessing = FALSE]
    /\ mRun' = [IdleMerge EXCEPT !.pc = "failed"]
    /\ mTimers' = mTimers + 1

\* The head of `for (let i = 0; i < items.length; i++)` entered with i, up
\* to the next await: setProgress and it.file.arrayBuffer(), or, past the
\* last item, setProgress("Saving merged PDF...") and mergedDoc.save().
MergeLoopHead(i, mergedDoc) ==
    IF i < Len(mRun.items)
    THEN /\ mergePDF' = [mergePDF EXCEPT
             !.progress = PageMsg("Processing", i + 1, Len(mRun.items))]
         /\ mRun' = [mRun EXCEPT !.pc = "item", !.i = i,
                                 !.mergedDoc = mergedDoc]
    ELSE /\ mergePDF' = [mergePDF EXCEPT
             !.progress = Msg("Saving merged PDF...")]
         /\ mRun' = [mRun EXCEPT !.pc = "save", !.i = i,
                                 !.mergedDoc = mergedDoc]

\* Click on "Merge PDFs" (enabled unless isProcessing || items.length < 2):
\* mergePDFs() up to its first await.  The function captures `items`, of
\* which it reads the files only.
mergePDFs ==
    /\ Mounted
    /\ ~mergePDF.isProcessing
    /\ Len(mergePDF.items) >= 2
    /\ ~MInFlight
    /\ MPending < MaxPending
    /\ LET totalSize == LET RECURSIVE Sum(_)
                            Sum(its) == IF its = <<>> THEN 0
                                        ELSE Head(its).file.size + Sum(Tail(its))
                        IN  Sum(mergePDF.items)
       IN  IF totalSize > MAX_SIZE_BYTES
           THEN /\ mergePDF' = [mergePDF EXCEPT !.mergedUrl = null, !.error =
                       "Total file size too large. Try fewer or smaller PDFs."]
                /\ UNCHANGED mRun
           ELSE /\ mergePDF' = [mergePDF EXCEPT !.mergedUrl = null,
                       !.error = "", !.isProcessing = TRUE,
                       !.progress = Msg("Creating new document...")]
                /\ mRun' = [IdleMerge EXCEPT !.pc = "create",
                       !.items = [k \in 1..Len(mergePDF.items) |->
                                     [id |-> mergePDF.items[k].id,
                                      file |-> mergePDF.items[k].file]]]
    /\ UNCHANGED <<mTimers, mLoads, nextId>>
    /\ UNCHANGED <<compressVars, splitVars, otherVars>>

\* PDFDocument.create() settles; the loop starts.
MergeCreate ==
    /\ Mounted
    /\ mRun.pc = "create"
    /\ MergeLoopHead(0, <<>>)
    /\ UNCHANGED <<mTimers, mLoads, nextId>>
    /\ UNCHANGED <<compressVars, splitVars, otherVars>>

\* Mutant: the pages of an input are put in front of those already copied.
MergeItem_Prepend ==
    /\ Mounted
    /\ mRun.pc = "item"
    /\ LET it == mRun.items[mRun.i + 1]
       IN  IF ~it.file.decodable \/ it.file.encrypted \/ it.file.badPage > 0
           THEN MergeCatch
           ELSE /\ MergeLoopHead(mRun.i + 1,
                                 AllPages(it.file) \o mRun.mergedDoc)
                /\ UNCHANGED mTimers
    /\ UNCHANGED <<mLoads, nextId>>
    /\ UNCHANGED <<compressVars, splitVars, otherVars>>

\* it.file.arrayBuffer(), PDFDocument.load(arrayBuffer) and
\* mergedDoc.copyPages(...) settle for item i (no state is read or written
\* between these awaits): load throws on bytes it cannot decode and, having
\* no ignoreEncryption option here, on an encrypted document, copyPages on
\* a damaged page; otherwise every page is added and the loop goes on.
MergeItem ==
    /\ Mounted
    /\ mRun.pc = "item"
    /\ LET it == mRun.items[mRun.i + 1]
       IN  IF ~it.file.decodable \/ it.file.encrypted \/ it.file.badPage > 0
           THEN MergeCatch
           ELSE /\ MergeLoopHead(mRun.i + 1,
                                 mRun.mergedDoc \o AllPages(it.file))
                /\ UNCHANGED mTimers
    /\ UNCHANGED <<mLoads, nextId>>
    /\ UNCHANGED <<compressVars, splitVars, otherVars>>

\* mergedDoc.save() settles: the merged document is published, or save
\* throws.
MergeSave ==
    /\ Mounted
    /\ mRun.pc = "save"
    /\ \/ /\ mergePDF' = [mergePDF EXCEPT
                !.mergedUrl = ObjectURL(mRun.items, Blob(mRun.mergedDoc)),
                !.progress = Msg("Done"), !.isProcessing = FALSE]
          /\ mRun' = [IdleMerge EXCEPT !.pc = "done"]
          /\ mTimers' = mTimers + 1
       \/ MergeCatch
    /\ UNCHANGED <<mLoads, nextId>>
    /\ UNCHANGED <<compressVars, splitVars, otherVars>>

\* The finally's setTimeout callback, 2000 ms after a run ended.
MergeTimer ==
    /\ Mounted
    /\ mTimers > 0
    /\ mTimers' = mTimers - 1
    /\ mergePDF' = [mergePDF EXCEPT !.progress = Msg("")]
    /\ UNCHANGED <<mRun, mLoads, nextId>>
    /\ UNCHANGED <<compressVars, splitVars, otherVars>>

\* Click on "Clear".
clearAll ==
    /\ Mounted
    /\ mergePDF' = [mergePDF EXCEPT !.items = <<>>, !.mergedUrl = null,
                                    !.error = "", !.progress = Msg("")]
    /\ UNCHANGED <<mRun, mTimers, mLoads, nextId>>
    /\ UNCHANGED <<compressVars, splitVars, otherVars>>

DropLists ==
    UNION {[1..n -> MergeFiles] : n \in 1..MaxDrop}

MergeNext ==
    \/ \E dropped \in DropLists : onDrop(DropzoneAccepted(dropped))
    \/ \E q \in mLoads : MergeLoadPages(q)
    \/ \E idx \in 0..(MaxItems - 1) : MergeMoveUp(idx)
    \/ \E idx \in 0..(MaxItems - 1) : MergeMoveDown(idx)
    \/ \E id \in 1..MaxItems : removeItem(id)
    \/ \E index \in 0..(MaxItems - 1) : onDragStart(index)
    \/ \E index \in 0..(MaxItems - 1) : onDropItem(index)
    \/ mergePDFs
    \/ MergeCreate
    \/ MergeItem
    \/ MergeSave
    \/ MergeTimer
    \/ clearAll

\* The same, with an encrypted PDF among the files dropped.
MergeEncryptedNext ==
    \/ MergeNext
    \/ onDrop(<<EncryptedFile>>)

\* A list one item short of MAX_FILES, every page count read: the state
\* after a drop of MAX_FILES - 1 one-page PDFs.  Their ids were handed out
\* before the ids counted by nextId.
AlmostFullList ==
    [k \in 1..(MAX_FILES - 1) |->
        [id |-> k - (MAX_FILES - 1), file |-> PdfFile(1, 0, TRUE),
         pages |-> Some(1)]]

MergeFullInit ==
    /\ mergePDF = [items |-> AlmostFullList, isProcessing |-> FALSE,
                   mergedUrl |-> null, error |-> "", progress |-> Msg(""),
                   dragIndexRef |-> null]
    /\ mRun = IdleMerge
    /\ mTimers = 0
    /\ mLoads = {}
    /\ nextId = 0

\* One drop of MAX_FILES + 1 PDFs.
TooManyFiles == [k \in 1..(MAX_FILES + 1) |-> PdfFile(1, 0, TRUE)]

FullDrops == DropLists \cup {TooManyFiles}

\* Drops, removals and moves at the end of a list near MAX_FILES.
MergeFullNext ==
    \/ \E dropped \in FullDrops : onDrop(DropzoneAccepted(dropped))
    \/ \E q \in mLoads : MergeLoadPages(q)
    \/ \E idx \in (MAX_FILES - 2)..(MAX_FILES - 1) : MergeMoveUp(idx)
    \/ \E idx \in (MAX_FILES - 3)..(MAX_FILES - 2) : MergeMoveDown(idx)
    \/ \E id \in 0..MaxItems : removeItem(id)

\* ------------------------------------- compressViaCanvas: scale and canvas
\* JavaScript numbers are IEEE-754 doubles.  A positive double is written
\* [bits, exp]: the binary integer bits (most significant first, at most
\* DoubleBits of them) times 2^exp.  Page sizes are given in quarters of a
\* point, so that every input is a double exactly.
DoubleBits == 53
maxWidth == 1400

RECURSIVE BinOfNat(_)
BinOfNat(n) == IF n = 0 THEN <<>> ELSE Append(BinOfNat(n \div 2), n % 2)

RECURSIVE NatOfBin(_)
NatOfBin(bits) ==
    IF bits = <<>> THEN 0
    ELSE 2 * NatOfBin(SubSeq(bits, 1, Len(bits) - 1)) + bits[Len(bits)]

One == [bits |-> <<1>>, exp |-> 0]

\* bits + 1 on a mantissa that is not all ones.
IncBits(bits) ==
    LET k == CHOOSE i \in 1..Len(bits) :
                 bits[i] = 0 /\ \A j \in (i + 1)..Len(bits) : bits[j] = 1
    IN  [i \in 1..Len(bits) |-> IF i < k THEN bits[i] ELSE IF i = k THEN 1 ELSE 0]

\* Round-to-nearest, ties-to-even, of the exact value bits * 2^exp (plus
\* something below its last bit when sticky) to DoubleBits bits.
RoundNearestEven(bits, exp, sticky) ==
    IF Len(bits) <= DoubleBits THEN [bits |-> bits, exp |-> exp]
    ELSE LET mant == SubSeq(bits, 1, DoubleBits)
             e == exp + (Len(bits) - DoubleBits)
             guard == bits[DoubleBits + 1]
             rest == sticky \/ \E i \in (DoubleBits + 2)..Len(bits) : bits[i] = 1
             up == guard = 1 /\ (rest \/ mant[DoubleBits] = 1)
         IN  IF ~up THEN [bits |-> mant, exp |-> e]
             ELSE IF \A i \in 1..DoubleBits : mant[i] = 1
             THEN [bits |-> <<1>> \o [i \in 1..(DoubleBits - 1) |-> 0],
                   exp |-> e + 1]
             ELSE [bits |-> IncBits(mant), exp |-> e]

\* 2^k modulo d, by repeated squaring.
RECURSIVE Pow2Mod(_, _)
Pow2Mod(k, d) ==
    IF k = 0 THEN 1 % d
    ELSE IF k % 2 = 1 THEN (2 * Pow2Mod(k - 1, d)) % d
    ELSE CHOOSE y \in {(h * h) % d : h \in {Pow2Mod(k \div 2, d)}} : TRUE

\* Long division n / d for 0 < n < d: what is left after k bits of the
\* quotient, and its k-th bit after the point.
Rem(n, d, k) == (n * Pow2Mod(k, d)) % d
FracBit(n, d, k) == IF 2 * Rem(n, d, k - 1) >= d THEN 1 ELSE 0

\* The double n / d for integers 0 < n < d: the quotient's first
\* DoubleBits + 1 significant bits, rounded.
Divide(n, d) ==
    LET first == CHOOSE k \in 1..31 :
                     FracBit(n, d, k) = 1 /\ \A j \in 1..(k - 1) : FracBit(n, d, j) = 0
        last == first + DoubleBits
    IN  CHOOSE x \in {RoundNearestEven(bits, 0 - last, Rem(n, d, last) # 0) :
                        bits \in {[i \in 1..(DoubleBits + 1) |->
                                      FracBit(n, d, first + i - 1)]}} : TRUE

\* Limbs of LimbBits bits, for products that do not fit a machine integer
\* of the model checker.
Limb == 2 ^ 13
LimbBits == 13

\* bits as limbs, most significant first (the first one padded with zeros).
ToLimbs(bits) ==
    LET m == (Len(bits) + LimbBits - 1) \div LimbBits
        pad == m * LimbBits - Len(bits)
        padded == [i \in 1..(m * LimbBits) |-> IF i <= pad THEN 0 ELSE bits[i - pad]]
    IN  [j \in 1..m |->
            NatOfBin(SubSeq(padded, LimbBits * (j - 1) + 1, LimbBits * j))]

\* limbs * h for a natural h < Limb * 2: the limbs of the product, the
\* carry out of the first one in front.
RECURSIVE MulLimbs(_, _, _, _, _)
MulLimbs(limbs, j, h, carry, acc) ==
    IF j = 0 THEN <<carry>> \o acc
    ELSE CHOOSE r \in {MulLimbs(limbs, j - 1, h, t \div Limb, <<t % Limb>> \o acc) :
                         t \in {limbs[j] * h + carry}} : TRUE

\* The bits of limbs, without leading zeros.
FromLimbs(limbs) ==
    LET n == Len(limbs) * LimbBits + LimbBits
        \* the carry limb may need more than LimbBits bits: it is split
        all == <<limbs[1] \div Limb, limbs[1] % Limb>> \o Tail(limbs)
        bit(i) == (all[(i - 1) \div LimbBits + 1]
                      \div (2 ^ (LimbBits - 1 - ((i - 1) % LimbBits)))) % 2
        first == CHOOSE i \in 1..n : bit(i) = 1 /\ \A j \in 1..(i - 1) : bit(j) = 0
    IN  [i \in 1..(n - first + 1) |-> bit(first + i - 1)]

\* The double x * (quarters / 4).
Times(x, quarters) ==
    CHOOSE y \in {RoundNearestEven(product, x.exp - 2, FALSE) :
                    product \in {FromLimbs(MulLimbs(ToLimbs(x.bits),
                                    Len(ToLimbs(x.bits)), quarters, 0, <<>>))}} :
        TRUE

\* Math.round(x): the integer nearest x, a tie going up.
MathRound(x) ==
    IF x.exp >= 0 THEN NatOfBin(x.bits) * (2 ^ x.exp)
    ELSE LET k == 0 - x.exp
             n == Len(x.bits)
             half == IF n - k + 1 >= 1 THEN x.bits[n - k + 1] ELSE 0
         IN  NatOfBin(SubSeq(x.bits, 1, n - k)) + half

\* Mutant: no clamp to 1.
Scale_NoClamp(width) ==
    IF maxWidth * 4 >= width
    THEN [bits |-> BinOfNat((maxWidth * 4) \div width), exp |-> 0]
    ELSE Divide(maxWidth * 4, width)

\* Math.min(1, maxWidth / viewport.width), width in quarter points: the
\* quotient is at least 1 when width <= maxWidth.
Scale(width) ==
    IF maxWidth * 4 >= width THEN One ELSE Divide(maxWidth * 4, width)

\* page.getViewport({ scale }) multiplies both sides by scale; the canvas
\* takes the rounded sides.
Canvas(viewport, scale) ==
    CHOOSE canvas \in {[width |-> MathRound(w), height |-> MathRound(h)] :
                         w \in {Times(scale, viewport.width)},
                         h \in {Times(scale, viewport.height)}} : TRUE

\* Page sides, in quarter points: Letter and A4-like sides, sides at and
\* around maxWidth, and larger ones.
NativeWidths == {612 * 4, 841 * 4 + 3, 1190 * 4 + 2, 1400 * 4, 1400 * 4 + 1,
                 1632 * 4, 2000 * 4, 2800 * 4}
NativeHeights == {85 * 4, 792 * 4, 841 * 4 + 3, 1001 * 4, 1005 * 4,
                  1400 * 4, 2346 * 4, 2000 * 4 + 2}
RasterInputs ==
    {[viewport |-> [width |-> w, height |-> h], scale |-> null,
      canvas |-> null] : w \in NativeWidths, h \in NativeHeights}

RasterIdle == [viewport |-> null, scale |-> null, canvas |-> null]

\* The loop body from getViewport({ scale: 1 }) to canvas.height = ...
RasterizePage ==
    /\ raster.viewport # null
    /\ raster.canvas = null
    /\ \E scale \in {Scale(raster.viewport.width)} :
          raster' = [raster EXCEPT !.scale = scale,
                        !.canvas = Canvas(raster.viewport, scale)]
    /\ UNCHANGED <<compressVars, splitVars, mergeVars, server, imageReduce,
                   removebg, rReads, resizer, upload>>

RasterNext == RasterizePage

\* ------------------------------------------------- exam sizes (server side)
\* JSON values as the code tells them apart: null, and objects by name.
JsNull == [kind |-> "null", of |-> "null"]
ServerDefaultExamSizes == [kind |-> "object", of |-> "server DEFAULT_EXAM_SIZES"]
ClientDefaultExamSizes == [kind |-> "object", of |-> "client DEFAULT_EXAM_SIZES"]
GeminiTable == [kind |-> "object", of |-> "table written by Gemini"]

\* if (v), v || w
Truthy(v) == v.kind # "null"
\* typeof v === "object" is also true of null
TypeofObject(v) == v.kind \in {"object", "null"}

\* The text of candidates[0].content.parts, joined.
TableText == "{ table }"
\* (a fence stands for the three backquotes)
FencedText == "<fence>json { table } <fence>"
ReplyTexts == {"", "Here are the sizes", "null", TableText, FencedText}

\* clean = text.trim(), the fences removed when the text starts with one.
Clean(text) == IF text = FencedText THEN TableText ELSE text

JsonParses(clean) == clean \in {"null", TableText}
JsonParse(clean) == IF clean = "null" THEN JsNull ELSE GeminiTable

\* What one call of getExamSizesFromGemini meets: the key in the
\* environment, fetch (which may reject), the status, response.json()
\* (which may reject), and the body's error, candidates and text.
GoodReply(text) ==
    [key |-> TRUE, fetch |-> "resolves", ok |-> TRUE, json |-> "resolves",
     error |-> FALSE, candidates |-> 1, text |-> text]
GeminiReplies ==
    {GoodReply(t) : t \in ReplyTexts} \cup
    {[GoodReply(TableText) EXCEPT !.key = FALSE],
     [GoodReply(TableText) EXCEPT !.fetch = "rejects"],
     [GoodReply(TableText) EXCEPT !.ok = FALSE],
     [GoodReply(TableText) EXCEPT !.json = "rejects"],
     [GoodReply(TableText) EXCEPT !.error = TRUE],
     [GoodReply(TableText) EXCEPT !.candidates = 0]}

\* Mutant: a reply without candidates yields no table.
getExamSizesFromGemini_NoCandidates(reply) ==
    IF ~reply.key THEN ServerDefaultExamSizes
    ELSE IF reply.fetch = "rejects" THEN ServerDefaultExamSizes
    ELSE IF ~reply.ok THEN ServerDefaultExamSizes
    ELSE IF reply.json = "rejects" THEN ServerDefaultExamSizes
    ELSE IF reply.error THEN ServerDefaultExamSizes
    ELSE IF reply.candidates = 0 THEN JsNull
    ELSE IF reply.text = "" THEN ServerDefaultExamSizes
    ELSE IF ~JsonParses(Clean(reply.text)) THEN ServerDefaultExamSizes
    ELSE JsonParse(Clean(reply.text))

\* getExamSizesFromGemini(): the value its promise resolves to.  The two
\* rejections are caught by the outer catch.
getExamSizesFromGemini(reply) ==
    IF ~reply.key THEN ServerDefaultExamSizes
    ELSE IF reply.fetch = "rejects" THEN ServerDefaultExamSizes
    ELSE IF ~reply.ok THEN ServerDefaultExamSizes
    ELSE IF reply.json = "rejects" THEN ServerDefaultExamSizes
    ELSE IF reply.error THEN ServerDefaultExamSizes
    ELSE IF reply.candidates = 0 THEN ServerDefaultExamSizes
    ELSE IF reply.text = "" THEN ServerDefaultExamSizes
    ELSE IF ~JsonParses(Clean(reply.text)) THEN ServerDefaultExamSizes
    ELSE JsonParse(Clean(reply.text))

\* server: cachedExamSizes; the startup lookup and the GET handler, each
\* pending or not; the response sent.  by is the reply behind a value.
ServerInit ==
    server = [cachedExamSizes |-> JsNull, cachedBy |-> null,
              startup |-> "pending", request |-> "none", response |-> null]

\* ImageReduce: examSizes, examSizesLoading, the effect's mounted flag and
\* the position of fetchSizes; outcome and received record how the fetch
\* ended and the response it read.
ImageReduceInit ==
    imageReduce = [examSizes |-> ClientDefaultExamSizes,
                   examSizesLoading |-> FALSE, mounted |-> TRUE,
                   fetchSizes |-> "idle", outcome |-> "pending",
                   received |-> null]

ExamInit == ServerInit /\ ImageReduceInit

\* cachedExamSizes = await getExamSizesFromGemini() of the startup block.
StartupLookup(reply) ==
    /\ server.startup = "pending"
    /\ server' = [server EXCEPT !.startup = "done",
                     !.cachedExamSizes = getExamSizesFromGemini(reply),
                     !.cachedBy = Some(reply)]
    /\ UNCHANGED <<imageReduce, pdfVars, raster, removebg, rReads, resizer,
                   upload>>

\* GET /api/exam-sizes up to its first await: the cached table, or a
\* lookup of its own.  getExamSizesFromGemini never rejects, so the
\* handler's catch is not entered.
ExamSizesEndpoint ==
    /\ imageReduce.fetchSizes = "fetch"
    /\ server.request = "none"
    /\ server' =
         IF Truthy(server.cachedExamSizes)
         THEN [server EXCEPT !.request = "done",
                 !.response = Some([examSizes |-> server.cachedExamSizes,
                                    by |-> server.cachedBy])]
         ELSE [server EXCEPT !.request = "lookup"]
    /\ UNCHANGED <<imageReduce, pdfVars, raster, removebg, rReads, resizer,
                   upload>>

\* ... after its await: the table is cached and sent.
ExamSizesEndpointLookup(reply) ==
    /\ server.request = "lookup"
    /\ LET sizes == getExamSizesFromGemini(reply)
       IN  server' = [server EXCEPT !.request = "done",
                        !.cachedExamSizes = sizes, !.cachedBy = Some(reply),
                        !.response = Some([examSizes |-> sizes,
                                           by |-> Some(reply)])]
    /\ UNCHANGED <<imageReduce, pdfVars, raster, removebg, rReads, resizer,
                   upload>>

\* The effect run on mount: fetchSizes() up to await fetch(endpoint).
fetchSizes ==
    /\ imageReduce.fetchSizes = "idle"
    /\ imageReduce.mounted
    /\ imageReduce' = [imageReduce EXCEPT !.fetchSizes = "fetch",
                          !.examSizesLoading = TRUE]
    /\ UNCHANGED <<server, pdfVars, raster, removebg, rReads, resizer, upload>>

\* The finally block.
FetchSizesFinally(state) ==
    IF state.mounted THEN [state EXCEPT !.examSizesLoading = FALSE] ELSE state

\* fetch rejects, the status is not ok, or res.json() rejects: nothing is
\* set but the loading flag.
FetchSizesFails(how) ==
    /\ imageReduce.fetchSizes = "fetch"
    /\ imageReduce' = FetchSizesFinally(
           [imageReduce EXCEPT !.fetchSizes = "done", !.outcome = how])
    /\ UNCHANGED <<server, pdfVars, raster, removebg, rReads, resizer, upload>>

\* The body { examSizes: ... } of the server's response arrives.
FetchSizesData ==
    /\ imageReduce.fetchSizes = "fetch"
    /\ server.response # null
    /\ LET data == [kind |-> "object", of |-> "response body",
                    examSizes |-> server.response.val.examSizes]
           sizes == IF Truthy(data.examSizes) THEN data.examSizes ELSE data
           ended == [imageReduce EXCEPT !.fetchSizes = "done",
                        !.outcome = "data", !.received = server.response]
       IN  imageReduce' =
             IF ~imageReduce.mounted THEN ended
             ELSE IF Truthy(sizes) /\ TypeofObject(sizes)
             THEN FetchSizesFinally([ended EXCEPT !.examSizes = sizes])
             ELSE FetchSizesFinally(ended)
    /\ UNCHANGED <<server, pdfVars, raster, removebg, rReads, resizer, upload>>

\* The effect's cleanup.
ImageReduceUnmount ==
    /\ imageReduce.mounted
    /\ imageReduce' = [imageReduce EXCEPT !.mounted = FALSE]
    /\ UNCHANGED <<server, pdfVars, raster, removebg, rReads, resizer, upload>>

FetchFailures == {"fetch rejects", "status not ok", "res.json rejects"}

ExamNext ==
    \/ \E reply \in GeminiReplies : StartupLookup(reply)
    \/ ExamSizesEndpoint
    \/ \E reply \in GeminiReplies : ExamSizesEndpointLookup(reply)
    \/ fetchSizes
    \/ \E how \in FetchFailures : FetchSizesFails(how)
    \/ FetchSizesData
    \/ ImageReduceUnmount

\* ---------------------------------------------------------------- Removebg
RemovebgMaxBytes == 12 * 1024 * 1024

\* A file of the input: MIME type and size.
Upload(type, size) == [type |-> type, size |-> size]
Uploads ==
    {Upload("image/png", s) :
        s \in {1, RemovebgMaxBytes - 1, RemovebgMaxBytes, RemovebgMaxBytes + 1}}
    \cup {Upload("application/pdf", 1), Upload("", 1)}

StartsWithImage(type) == type \in {"image/png"}

RemovebgInit ==
    /\ removebg = [preview |-> null, file |-> null, processedImage |-> null,
                   loading |-> FALSE, error |-> "", success |-> FALSE]
    /\ rReads = {}

\* handleImageUpload(e) with a file chosen (without one it returns at once).
handleImageUpload(f) ==
    /\ LET cleared == [removebg EXCEPT !.error = "", !.success = FALSE,
                          !.processedImage = null]
       IN  IF ~StartsWithImage(f.type)
           THEN /\ removebg' = [cleared EXCEPT
                                  !.error = "Please upload a valid image file"]
                /\ UNCHANGED rReads
           ELSE IF f.size > RemovebgMaxBytes
           THEN /\ removebg' = [cleared EXCEPT
                                  !.error = "Image size must be less than 12MB"]
                /\ UNCHANGED rReads
           ELSE /\ removebg' = [cleared EXCEPT !.file = f]
                /\ rReads' = rReads \cup {f}
    /\ UNCHANGED <<pdfVars, raster, server, imageReduce, resizer, upload>>

\* reader.onload
RemovebgReaderLoad(f) ==
    /\ f \in rReads
    /\ rReads' = rReads \ {f}
    /\ removebg' = [removebg EXCEPT !.preview = Some(f)]
    /\ UNCHANGED <<pdfVars, raster, server, imageReduce, resizer, upload>>

\* PDFs of one page whose sizes lie at and around SplitPDF's limit.
LimitPdfs ==
    {[PdfFile(1, 0, TRUE) EXCEPT !.size = s] :
        s \in {SplitMaxBytes - 1, SplitMaxBytes, SplitMaxBytes + 1}}

\* The two uploaders that limit the size, with files around their limits.
SizeLimitNext ==
    \/ \E f \in LimitPdfs \cup {EmptyFile, ImageFile} : SplitSelectFile(f)
    \/ \E f \in LimitPdfs : SplitReadPdfPagesDone(f)
    \/ \E f \in Uploads : handleImageUpload(f)
    \/ \E f \in Uploads : RemovebgReaderLoad(f)

\* ------------------------------------------------- ImageReduce: the image
\* An image file: MIME type, whether createImageBitmap decodes it, and the
\* bitmap's sides.
Image(type, ok, w, h) ==
    [type |-> type, decodable |-> ok, width |-> w, height |-> h]

\* allowed.includes(file.type)
AllowedImage(file) == file.type \in {"image/jpeg", "image/png", "image/webp"}

\* The text of an input, one character per element.
DigitChars == <<"0", "1", "2", "3", "4", "5", "6", "7", "8", "9">>

RECURSIVE Digits(_)
Digits(n) ==
    IF n < 10 THEN <<DigitChars[n + 1]>>
    ELSE Digits(n \div 10) \o Digits(n % 10)

\* String(n) for a natural n.
String(n) == Digits(n)

IsDigit(c) == \E v \in 0..9 : c = DigitChars[v + 1]
DigitValue(c) == CHOOSE v \in 0..9 : c = DigitChars[v + 1]

\* The value of the digits text starts with, acc being the value so far.
RECURSIVE LeadingDigits(_, _)
LeadingDigits(text, acc) ==
    IF text = <<>> \/ ~IsDigit(Head(text)) THEN acc
    ELSE LeadingDigits(Tail(text), 10 * acc + DigitValue(Head(text)))

\* parseInt(text || "0", 10) for the value of a type="number" input, which
\* is empty or the text of a number: a sign, then the leading digits.
ParseInt(text) ==
    IF text = <<>> THEN 0
    ELSE IF Head(text) = "-" THEN 0 - LeadingDigits(Tail(text), 0)
    ELSE LeadingDigits(text, 0)

\* DEFAULT_EXAM_SIZES of the component, for two of its exams.
Exams == {"JEE Main", "SSC"}
DocTypes == {"photo", "signature"}
ExamPreset(exam, docType) ==
    IF exam = "JEE Main"
    THEN IF docType = "photo" THEN [width |-> 350, height |-> 450]
                              ELSE [width |-> 160, height |-> 50]
    ELSE IF docType = "photo" THEN [width |-> 200, height |-> 230]
                              ELSE [width |-> 140, height |-> 60]

\* examSizes?.[exam]?.[docType] on the built-in tables.
LookupPreset(table, exam, docType) ==
    IF /\ exam \in Exams
       /\ table \in {ClientDefaultExamSizes, ServerDefaultExamSizes}
    THEN Some(ExamPreset(exam, docType))
    ELSE null

\* getCurrentConfig()
getCurrentConfig(state) ==
    IF state.exam = "" THEN null
    ELSE LookupPreset(imageReduce.examSizes, state.exam, state.docType)

Half == [bits |-> <<1>>, exp |-> 0 - 1]

\* Math.min(targetW / bmp.width, targetH / bmp.height) for positive targets
\* no larger than the bitmap: division rounds monotonically, so the smaller
\* quotient is the quotient of the smaller ratio.
MinRatio(targetW, targetH, bmp) ==
    IF targetW * bmp.height <= targetH * bmp.width
    THEN IF targetW = bmp.width THEN One ELSE Divide(targetW, bmp.width)
    ELSE IF targetH = bmp.height THEN One ELSE Divide(targetH, bmp.height)

Min(a, b) == IF a <= b THEN a ELSE b
Max(a, b) == IF a >= b THEN a ELSE b

\* Math.max(1, Math.round(side * scale))
OutSide(side, scale) ==
    CHOOSE out \in {Max(1, MathRound(x)) : x \in {Times(scale, 4 * side)}} : TRUE

\* Mutant: the target is not limited to the bitmap.
OutputSize_NoClamp(bmp, givenW, givenH) ==
    IF givenW < 0 \/ givenH < 0 THEN [width |-> 1, height |-> 1]
    ELSE IF givenW = 0 \/ givenH = 0
    THEN [width |-> OutSide(bmp.width, Half), height |-> OutSide(bmp.height, Half)]
    ELSE [width |-> givenW, height |-> givenH]

\* handleUpload from `if (!targetW || !targetH)` to outW and outH.  With a
\* negative target the scale is negative and both sides come out as
\* Math.max(1, ...) = 1.
OutputSize(bmp, givenW, givenH) ==
    LET unusable == givenW = 0 \/ givenH = 0
        targetW == IF unusable THEN MathRound(Times(Half, 4 * bmp.width))
                   ELSE givenW
        targetH == IF unusable THEN MathRound(Times(Half, 4 * bmp.height))
                   ELSE givenH
        tw == Min(targetW, bmp.width)
        th == Min(targetH, bmp.height)
    IN  IF tw < 0 \/ th < 0 THEN [width |-> 1, height |-> 1]
        ELSE CHOOSE out \in
                 {[width |-> OutSide(bmp.width, scale),
                   height |-> OutSide(bmp.height, scale)] :
                     scale \in {MinRatio(tw, th, bmp)}} : TRUE

\* resizer: the image-related useState fields of ImageReduce, whether it
\* is mounted, the object URLs revoked so far and the number created.
\* An object URL is a number; resizedImage also records the canvas it was
\* made from and what it was made for.
ResizerIdle ==
    [selectedFile |-> null, originalImage |-> null, resizedImage |-> null,
     customWidth |-> <<>>, customHeight |-> <<>>, exam |-> "",
     docType |-> "photo", loading |-> FALSE, error |-> "", success |-> FALSE,
     mounted |-> TRUE, revoked |-> {}, created |-> 0]

UploadIdle == [pc |-> "idle", file |-> null, cfg |-> null,
               customWidth |-> <<>>, customHeight |-> <<>>, canvas |-> null,
               given |-> null]

ResizerInit ==
    /\ resizer = ResizerIdle
    /\ upload = UploadIdle

\* The URLs held by originalImage and resizedImage.
HeldUrls(state) ==
    (IF state.originalImage # null THEN {state.originalImage.val.url} ELSE {})
    \cup (IF state.resizedImage # null THEN {state.resizedImage.val.url} ELSE {})

\* The commit of a render: when originalImage or resizedImage changed, the
\* cleanup of the effect on [originalImage, resizedImage] runs with the
\* values of the render before and revokes their URLs.
Commit(before, after) ==
    IF before.originalImage # after.originalImage
          \/ before.resizedImage # after.resizedImage
    THEN [after EXCEPT !.revoked = after.revoked \cup HeldUrls(before)]
    ELSE after

\* validateAndSetFile(file) with a file (without one it only clears the
\* error).
validateAndSetFile(file) ==
    /\ resizer.mounted
    /\ IF ~AllowedImage(file)
       THEN resizer' = [resizer EXCEPT
                          !.error = "Only JPG, PNG and WEBP are supported"]
       ELSE /\ resizer.created < MaxUrls
            /\ resizer' = Commit(resizer,
                 [resizer EXCEPT !.error = "",
                    !.revoked = resizer.revoked \cup HeldUrls(resizer),
                    !.created = resizer.created + 1,
                    !.selectedFile = file,
                    !.originalImage = Some([url |-> resizer.created + 1]),
                    !.resizedImage = null,
                    !.success = FALSE])
    /\ UNCHANGED <<upload, pdfVars, raster, server, imageReduce, removebg, rReads>>

\* handleExamChange(value)
handleExamChange(value) ==
    /\ resizer.mounted
    /\ LET cfg == IF value = "" THEN null
                  ELSE LookupPreset(imageReduce.examSizes, value, resizer.docType)
       IN  resizer' = [resizer EXCEPT !.exam = value, !.error = "",
               !.customWidth = IF cfg # null THEN String(cfg.val.width) ELSE <<>>,
               !.customHeight = IF cfg # null THEN String(cfg.val.height) ELSE <<>>]
    /\ UNCHANGED <<upload, pdfVars, raster, server, imageReduce, removebg, rReads>>

\* handleDocTypeChange(value)
handleDocTypeChange(value) ==
    /\ resizer.mounted
    /\ LET cfg == LookupPreset(imageReduce.examSizes, resizer.exam, value)
           set == [resizer EXCEPT !.docType = value, !.error = ""]
       IN  resizer' =
             IF resizer.exam = "" THEN set
             ELSE [set EXCEPT
               !.customWidth = IF cfg # null THEN String(cfg.val.width) ELSE <<>>,
               !.customHeight = IF cfg # null THEN String(cfg.val.height) ELSE <<>>]
    /\ UNCHANGED <<upload, pdfVars, raster, server, imageReduce, removebg, rReads>>

\* The width and height inputs' onChange.
setCustomWidth(text) ==
    /\ resizer.mounted
    /\ resizer' = [resizer EXCEPT !.customWidth = text]
    /\ UNCHANGED <<upload, pdfVars, raster, server, imageReduce, removebg, rReads>>

setCustomHeight(text) ==
    /\ resizer.mounted
    /\ resizer' = [resizer EXCEPT !.customHeight = text]
    /\ UNCHANGED <<upload, pdfVars, raster, server, imageReduce, removebg, rReads>>

\* Click on "Process Image" (disabled={!selectedFile || loading}):
\* handleUpload() up to await createImageBitmap(selectedFile).  The call
\* keeps the file, preset and texts of the render it was made in.
handleUpload ==
    /\ resizer.mounted
    /\ resizer.selectedFile # null
    /\ ~resizer.loading
    /\ upload.pc = "idle"
    /\ resizer' = [resizer EXCEPT !.loading = TRUE, !.error = ""]
    /\ upload' = [UploadIdle EXCEPT !.pc = "bitmap",
                     !.file = resizer.selectedFile,
                     !.cfg = getCurrentConfig(resizer),
                     !.customWidth = resizer.customWidth,
                     !.customHeight = resizer.customHeight]
    /\ UNCHANGED <<pdfVars, raster, server, imageReduce, removebg, rReads>>

\* What setState does after the unmount: nothing.
SetIfMounted(after) == IF resizer.mounted THEN Commit(resizer, after) ELSE resizer

\* createImageBitmap settles: targetW and targetH as given, the canvas
\* sized and drawn, canvas.toBlob called; or the catch and finally.
UploadBitmap ==
    /\ upload.pc = "bitmap"
    /\ IF ~upload.file.decodable
       THEN /\ resizer' = SetIfMounted([resizer EXCEPT !.loading = FALSE,
                             !.error = "Failed to process image"])
            /\ upload' = UploadIdle
       ELSE /\ LET givenW == IF upload.cfg # null THEN upload.cfg.val.width
                             ELSE ParseInt(upload.customWidth)
                   givenH == IF upload.cfg # null THEN upload.cfg.val.height
                             ELSE ParseInt(upload.customHeight)
               IN  upload' = [upload EXCEPT !.pc = "blob",
                       !.given = Some([width |-> givenW, height |-> givenH]),
                       !.canvas = Some(OutputSize(upload.file, givenW, givenH))]
            /\ UNCHANGED resizer
    /\ UNCHANGED <<pdfVars, raster, server, imageReduce, removebg, rReads>>

\* toBlob's callback: the blob's URL is created and set, then the finally.
UploadBlob ==
    /\ upload.pc = "blob"
    /\ resizer.created < MaxUrls
    /\ resizer' =
         IF resizer.mounted
         THEN Commit(resizer,
                [resizer EXCEPT !.created = resizer.created + 1,
                   !.resizedImage =
                       Some([url |-> resizer.created + 1,
                             width |-> upload.canvas.val.width,
                             height |-> upload.canvas.val.height,
                             bmp |-> upload.file, cfg |-> upload.cfg,
                             given |-> upload.given.val]),
                   !.success = TRUE, !.loading = FALSE])
         ELSE [resizer EXCEPT !.created = resizer.created + 1]
    /\ upload' = UploadIdle
    /\ UNCHANGED <<pdfVars, raster, server, imageReduce, removebg, rReads>>

\* resetForm()
resetForm ==
    /\ resizer.mounted
    /\ resizer' = Commit(resizer,
         [resizer EXCEPT !.revoked = resizer.revoked \cup HeldUrls(resizer),
            !.selectedFile = null, !.originalImage = null,
            !.resizedImage = null, !.customWidth = <<>>,
            !.customHeight = <<>>, !.exam = "", !.docType = "photo",
            !.error = "", !.success = FALSE])
    /\ UNCHANGED <<upload, pdfVars, raster, server, imageReduce, removebg, rReads>>

\* The component unmounts: the effect's cleanup runs once more.
ResizerUnmount ==
    /\ resizer.mounted
    /\ resizer' = [resizer EXCEPT !.mounted = FALSE,
                      !.revoked = resizer.revoked \cup HeldUrls(resizer)]
    /\ UNCHANGED <<upload, pdfVars, raster, server, imageReduce, removebg, rReads>>

\* A small photo, an image that does not decode, and a PDF.
SmallImage == Image("image/png", TRUE, 3, 4)
ResizerFiles == {SmallImage, Image("image/webp", FALSE, 1, 1),
                 Image("application/pdf", FALSE, 1, 1)}
ResizerTexts == {<<>>, <<"2">>}

ResizerNext ==
    \/ \E file \in ResizerFiles : validateAndSetFile(file)
    \/ \E value \in {"", "SSC"} : handleExamChange(value)
    \/ \E value \in DocTypes : handleDocTypeChange(value)
    \/ \E text \in ResizerTexts : setCustomWidth(text)
    \/ \E text \in ResizerTexts : setCustomHeight(text)
    \/ handleUpload
    \/ UploadBitmap
    \/ UploadBlob
    \/ resetForm
    \/ ResizerUnmount

\* Bitmaps from one pixel to a few thousand, and the texts of the width
\* and height inputs.
Bitmaps ==
    {Image("image/jpeg", TRUE, w, h) :
        w \in {1, 3, 350, 1000, 4000}, h \in {1, 4, 450, 1000, 3001}}
CustomTexts == {<<>>, <<"0">>, <<"1">>, <<"2", ".", "5">>, <<"3", "0", "0">>,
                <<"5", "0", "0", "0">>, <<"-", "5">>}

\* An image selected, the inputs filled in, an exam chosen or not.
ResizeInputs ==
    {[ResizerIdle EXCEPT !.selectedFile = bmp,
         !.originalImage = Some([url |-> 1]), !.created = 1,
         !.exam = exam, !.docType = docType,
         !.customWidth = IF exam = "" THEN w
                         ELSE String(ExamPreset(exam, docType).width),
         !.customHeight = IF exam = "" THEN h
                          ELSE String(ExamPreset(exam, docType).height)] :
        bmp \in Bitmaps, exam \in Exams \cup {""}, docType \in DocTypes,
        w \in CustomTexts, h \in CustomTexts}

ResizeNext ==
    \/ handleUpload
    \/ UploadBitmap
    \/ UploadBlob

PdfInit == CompressInit /\ SplitInit /\ MergeInit
ToolsInit == ExamInit /\ RemovebgInit

ComponentsInit == PdfInit /\ ToolsInit /\ ResizerInit

Init == ComponentsInit /\ raster = RasterIdle

\* MergePDF with an almost full list.
FullInit ==
    CompressInit /\ SplitInit /\ MergeFullInit /\ ToolsInit /\ ResizerInit
        /\ raster = RasterIdle

\* ImageReduce with an image selected and the inputs filled in.
ResizeInit ==
    PdfInit /\ ToolsInit /\ raster = RasterIdle
        /\ resizer \in ResizeInputs /\ upload = UploadIdle

\* A page about to be rasterized.
RasterInit == ComponentsInit /\ raster \in RasterInputs

SpecCompress == Init /\ [][CompressNext]_vars
SpecCompressOverlap == Init /\ [][CompressOverlapNext]_vars
SpecCompressRepair == Init /\ [][CompressRepairNext]_vars
SpecSplit == Init /\ [][SplitNext]_vars
SpecMerge == Init /\ [][MergeNext]_vars
SpecMergeEncrypted == Init /\ [][MergeEncryptedNext]_vars
SpecExam == Init /\ [][ExamNext]_vars
SpecSizeLimit == Init /\ [][SizeLimitNext]_vars
SpecMergeFull == FullInit /\ [][MergeFullNext]_vars
SpecImageReduce == Init /\ [][ResizerNext]_vars
SpecResize == ResizeInit /\ [][ResizeNext]_vars
SpecSplitFair == Init /\ [][SplitUnmountNext]_vars /\ SplitFairness
SpecRaster == RasterInit /\ [][RasterNext]_vars

\* ------------------------------------------------------------------ claims
\* C1: whenever CompressPDF offers a result, it is one document holding
\* exactly the N pages of the input its run was started on, output page k
\* being the rasterization of source page k, for k = 1..N in this order.
C1_CompressKeepsEveryPage ==
    compressPDF.resultUrl # null =>
        LET src == compressPDF.resultUrl.src
        IN  compressPDF.resultUrl.blob.pages =
                [k \in 1..src.numPages |-> RasterPage(src, k)]

C1_Witness ==
    /\ compressPDF.resultUrl # null
    /\ Len(compressPDF.resultUrl.blob.pages) = MaxPages
    /\ compressPDF.progress = Msg("Completed")

\* C4: the step in which a compress run fails on a page (getPage, render or
\* embedJpg throws) ends the run, sets the error text and publishes
\* nothing: result URL and size are left as they were, and a published
\* result never holds fewer pages than its input.
C4_PageFailureAbortsCompress ==
    [][\A r \in Slots :
          (cRuns[r].pc \in {"render", "embed"}
             /\ cRuns'[r].pc = "failed")
          => /\ compressPDF'.error = CompressFailedMsg
             /\ compressPDF'.resultUrl = compressPDF.resultUrl
             /\ compressPDF'.resultSize = compressPDF.resultSize
             /\ (compressPDF'.resultUrl # null =>
                   Len(compressPDF'.resultUrl.blob.pages)
                     = compressPDF'.resultUrl.src.numPages)]_vars

\* A run failed on page 2, after page 1 was already in outPdf, and nothing
\* is offered.
C4_Witness ==
    /\ cRuns[1].pc = "failed"
    /\ CRunsInFlight = {}
    /\ compressPDF.pageProgress.current = 2
    /\ compressPDF.error = CompressFailedMsg
    /\ compressPDF.resultUrl = null
    /\ compressPDF.resultSize = null

\* C8: a run the user abandoned with Reset never reaches the step that
\* publishes the result URL/size and sets progress to "Completed".
C8_AbandonedRunNeverCompletes ==
    [][\A r \in Slots : cRuns[r].abandoned => cRuns'[r].pc # "done"]_vars

\* C9: at most one compress run is in flight at any time.
C9_OneRunInFlight == Cardinality(CRunsInFlight) <= 1

\* C10: while one run (not abandoned, no other run in flight) is going and
\* the user neither selects a file nor resets, pageProgress.current never
\* decreases, and it is N when the run reports "Completed".
CompressUserStep ==
    CompressReset \/ \E f \in Files : CompressSelectFile(f)

C10_ProgressMonotonic ==
    [][\A r \in Slots :
          (/\ CRunsInFlight = {r}
           /\ ~cRuns[r].abandoned
           /\ ~CompressUserStep)
          => /\ compressPDF'.pageProgress.current
                  >= compressPDF.pageProgress.current
             /\ (cRuns'[r].pc = "done" =>
                   compressPDF'.pageProgress.current
                     = cRuns[r].file.numPages)]_vars

\* The entries a complete split of f publishes.
SplitAllEntries(f) ==
    [k \in 1..f.numPages |->
        [url |-> ObjectURL(f, Blob(<<SrcPage(f, k)>>)), pageNum |-> k,
         size |-> Blob(<<SrcPage(f, k)>>).size]]

\* C2: whenever SplitPDF offers split pages, they are exactly N one-page
\* documents for the N-page input of the run, the k-th with pageNum = k and
\* holding exactly source page k.
C2_SplitOnePerPage ==
    splitPDF.splitPages # null =>
        LET list == splitPDF.splitPages.val
        IN  /\ Len(list) >= 1
            /\ Len(list) = list[1].url.src.numPages
            /\ \A k \in 1..Len(list) :
                  /\ list[k].pageNum = k
                  /\ list[k].url.src = list[1].url.src
                  /\ list[k].url.blob.pages = <<SrcPage(list[1].url.src, k)>>

C2_Witness ==
    /\ splitPDF.splitPages # null
    /\ Len(splitPDF.splitPages.val) = MaxPages
    /\ splitPDF.progress = Msg("Completed")

C3_MergeKeepsOrder ==
    mergePDF.mergedUrl # null =>
        LET src == mergePDF.mergedUrl.src
            out == mergePDF.mergedUrl.blob.pages
            Before(k) == LET RECURSIVE Cnt(_)
                             Cnt(j) == IF j = 0 THEN 0
                                       ELSE src[j].file.numPages + Cnt(j - 1)
                         IN  Cnt(k - 1)
        IN  /\ Len(out) = Before(Len(src) + 1)
            /\ \A k \in 1..Len(src) : \A n \in 1..src[k].file.numPages :
                  out[Before(k) + n] = SrcPage(src[k].file, n)

\* A merge of two different documents, the longer one first.
C3_Witness ==
    /\ mergePDF.mergedUrl # null
    /\ Len(mergePDF.mergedUrl.src) = 2
    /\ mergePDF.mergedUrl.src[1].file.numPages = MaxPages
    /\ mergePDF.mergedUrl.src[2].file.numPages = 1
    /\ mergePDF.progress = Msg("Done")

\* C7: from the click on "Merge PDFs" on, mergedUrl is null while the run
\* is in flight and stays null when the run failed on an input; a merged
\* document is only ever offered for inputs that all decoded and copied.
C7_MergeAbortsOnBadInput ==
    /\ (MInFlight \/ mRun.pc = "failed") => mergePDF.mergedUrl = null
    /\ mergePDF.mergedUrl # null =>
          \A k \in 1..Len(mergePDF.mergedUrl.src) :
              /\ mergePDF.mergedUrl.src[k].file.decodable
              /\ mergePDF.mergedUrl.src[k].file.badPage = 0

\* The run failed on its second input, after the first had been copied.
C7_Witness ==
    /\ mRun.pc = "failed"
    /\ mergePDF.progress = PageMsg("Processing", 2, 2)
    /\ mergePDF.error = MergeFailedMsg
    /\ mergePDF.mergedUrl = null

\* C11: every step of a compress run takes it to the next phase in the
\* order start, load, create, render/embed page 1, 2, ..., n, finalize,
\* done, each announced by its progress text, or into the failed state; the
\* failing step emits no progress text, and the run does nothing after it
\* (its record only leaves "done"/"failed" when a new run is started).
C11_RunPhasesInOrder ==
    [][\A r \in Slots :
          LET a == cRuns[r]
              b == cRuns'[r]
              n == a.file.numPages
          IN  (a.pc # b.pc \/ a.p # b.p) =>
                \/ /\ a.pc \in {"idle", "done", "failed"}
                   /\ b.pc = "load"
                   /\ compressPDF'.progress = Msg("Starting compression...")
                \/ a.pc = "load" /\ b.pc = "create"
                \/ /\ a.pc = "create" /\ b.pc = "render" /\ b.p = 1
                   /\ compressPDF'.progress = PageMsg("Rendering page", 1, n)
                \/ a.pc = "render" /\ b.pc = "embed" /\ b.p = a.p
                \/ /\ a.pc = "embed" /\ b.pc = "render"
                   /\ a.p < n /\ b.p = a.p + 1
                   /\ compressPDF'.progress = PageMsg("Rendering page", b.p, n)
                \/ /\ a.pc = "embed" /\ b.pc = "save" /\ a.p = n
                   /\ compressPDF'.progress = Msg("Finalizing...")
                \/ /\ a.pc = "save" /\ b.pc = "done"
                   /\ compressPDF'.progress = Msg("Completed")
                \/ /\ a.pc \in {"load", "render", "embed", "save"}
                   /\ b.pc = "failed"
                   /\ compressPDF'.progress = compressPDF.progress]_vars

\* A run over the largest document is finalizing after its last page.
C11_Witness ==
    /\ cRuns[1].pc = "save"
    /\ cRuns[1].p = MaxPages + 1
    /\ compressPDF.progress = Msg("Finalizing...")

\* C12: within a run, when page p is being rendered or embedded the output
\* document holds exactly the pages 1..p-1, each rendered, encoded, embedded
\* and added; the run works on one page at a time.
C12_PagesSequential ==
    \A r \in Slots :
        /\ cRuns[r].pc \in {"render", "embed"} =>
              /\ cRuns[r].p \in 1..cRuns[r].file.numPages
              /\ cRuns[r].outPdf =
                    [k \in 1..(cRuns[r].p - 1) |-> RasterPage(cRuns[r].file, k)]
        /\ cRuns[r].pc = "save" =>
              cRuns[r].outPdf =
                 [k \in 1..cRuns[r].file.numPages |-> RasterPage(cRuns[r].file, k)]

\* Page 2 is being rendered with page 1 already in outPdf.
C12_Witness ==
    /\ cRuns[1].pc = "render"
    /\ cRuns[1].p = 2
    /\ Len(cRuns[1].outPdf) = 1

\* The setProgress(`Processing i+1 / n`) calls the merge run has made so
\* far: one at each loop head it has passed.
MergeProgressUpdates ==
    IF mRun.pc = "item" THEN mRun.i + 1
    ELSE IF mRun.pc = "save" THEN mRun.i
    ELSE 0

\* C13: the progress indication is updated at least once for each source
\* page processed: a merge run in flight has made at least as many
\* per-step progress updates as it has copied pages.
C13_ProgressPerPage ==
    MInFlight => Len(mRun.mergedDoc) <= MergeProgressUpdates

\* C14 as stated: a page not wider than maxWidth is rendered at scale 1 on
\* a canvas exactly as wide as the page, and no page is rendered wider than
\* its native width.
C14_NativeWidthKept ==
    raster.canvas # null =>
        /\ raster.viewport.width <= maxWidth * 4 =>
              /\ raster.scale = One
              /\ raster.canvas.width * 4 = raster.viewport.width
        /\ raster.canvas.width * 4 <= raster.viewport.width

\* C14, amended: a page not wider than maxWidth is rendered at scale 1 on
\* a canvas as wide as the native width rounded to the nearest integer (a
\* half going up): the native width itself when that is an integer, and
\* never more than half a pixel above it.
C14_NoUpscale ==
    raster.canvas # null =>
        /\ raster.viewport.width <= maxWidth * 4 =>
              /\ raster.scale = One
              /\ raster.canvas.width = (2 * raster.viewport.width + 4) \div 8
              /\ (raster.viewport.width % 4 = 0 =>
                    raster.canvas.width * 4 = raster.viewport.width)
        /\ 2 * (raster.canvas.width * 4 - raster.viewport.width) <= 4

\* A page 841.75 points wide got a canvas of 842 pixels.
C14_Witness ==
    /\ raster.canvas # null
    /\ raster.viewport.width = 841 * 4 + 3
    /\ raster.scale = One
    /\ raster.canvas.width = 842

\* C15: a page wider than maxWidth is rendered on a canvas exactly maxWidth
\* wide and round(H * maxWidth / W) high (a half going up); no canvas is
\* wider than maxWidth.
C15_ScaledToMaxWidth ==
    raster.canvas # null =>
        /\ raster.viewport.width > maxWidth * 4 =>
              /\ raster.canvas.width = maxWidth
              /\ raster.canvas.height =
                    (2 * raster.viewport.height * maxWidth + raster.viewport.width)
                       \div (2 * raster.viewport.width)
        /\ raster.canvas.width <= maxWidth

\* C16: once reading the selected file has failed (readPdf has finished,
\* pdf-lib could not decode the bytes) and that file is still the selected
\* one, no compress run renders a page of it and no output made from it is
\* on offer.  (The error text is empty here only when the click on
\* "Optimize PDF" cleared it: the run was started after the error was
\* shown.)
C16_NoRunAfterDecodeError ==
    LET f == compressPDF.file
    IN  (f # null /\ ~f.decodable /\ f \notin cReads /\ compressPDF.error = "") =>
           /\ \A r \in Slots :
                 (CInFlight(r) /\ cRuns[r].file = f) =>
                     /\ cRuns[r].pc \in {"load", "create"}
                     /\ cRuns[r].outPdf = <<>>
           /\ (compressPDF.resultUrl # null => compressPDF.resultUrl.src # f)

\* C17: a document that was opened at selection time, its page count read
\* and shown in the list, is also opened by the merge run: the run does not
\* fail on an item whose pages are all sound and whose page count is shown.
C17_OpenedAtSelectionOpensInRun ==
    [][(mRun.pc = "item" /\ mRun'.pc = "failed") =>
          LET it == mRun.items[mRun.i + 1]
          IN  ~ /\ it.file.badPage = 0
                /\ \E k \in 1..Len(mergePDF.items) :
                      /\ mergePDF.items[k].id = it.id
                      /\ mergePDF.items[k].pages = Some(it.file.numPages)
                      /\ it.file.numPages > 0]_vars

\* C18: after handleFileSet was called with a new file, accepted or
\* rejected, no later compress run operates on the file selected before:
\* while the text of a rejected selection is shown (only handleFileSet sets
\* it, and an accepted selection, reset and compress clear it) the last
\* selection was rejected, and no run starts on the file still held.
C18_NoRunOnDiscardedFile ==
    [][\A r \in Slots :
          (~CInFlight(r) /\ CInFlight(r)') =>
              compressPDF.error \notin {"Only PDF files are supported.",
                                        "Selected file is empty."}]_vars

\* The failures of one lookup: no API key, fetch or response.json()
\* throwing, an HTTP error, an error body, no candidates, empty text,
\* text that is not JSON.
LookupFails(reply) ==
    \/ ~reply.key
    \/ reply.fetch = "rejects" \/ reply.json = "rejects"
    \/ ~reply.ok
    \/ reply.error
    \/ reply.candidates = 0
    \/ reply.text = ""
    \/ ~JsonParses(Clean(reply.text))

\* C19: when the exam-size lookup fails at any step the table in use is a
\* built-in preset table: the table cached and the table sent after a
\* failed lookup are the server's DEFAULT_EXAM_SIZES, a client whose fetch
\* failed keeps its own DEFAULT_EXAM_SIZES, a client that read the response
\* of a failed lookup holds a preset table, and the client's table is
\* never null.
C19_FallbackToPresets ==
    /\ (server.cachedBy # null /\ LookupFails(server.cachedBy.val)) =>
           server.cachedExamSizes = ServerDefaultExamSizes
    /\ (server.response # null /\ LookupFails(server.response.val.by.val)) =>
           server.response.val.examSizes = ServerDefaultExamSizes
    /\ imageReduce.outcome \in FetchFailures =>
           imageReduce.examSizes = ClientDefaultExamSizes
    /\ (imageReduce.received # null
            /\ LookupFails(imageReduce.received.val.by.val)) =>
           imageReduce.examSizes \in
               {ServerDefaultExamSizes, ClientDefaultExamSizes}
    /\ Truthy(imageReduce.examSizes)

C19_Witness ==
    /\ imageReduce.received # null
    /\ imageReduce.received.val.by.val.candidates = 0
    /\ imageReduce.examSizes = ServerDefaultExamSizes
    /\ server.cachedExamSizes = ServerDefaultExamSizes

\* C20: a file accepted by a size-limited uploader is strictly under the
\* limit its message states: the file SplitPDF holds is smaller than 100 MB
\* and the image Removebg holds is smaller than 12 MB.
C20_AcceptedStrictlyUnderLimit ==
    /\ splitPDF.file # null => splitPDF.file.size < 100 * 1024 * 1024
    /\ removebg.file # null => removebg.file.size < 12 * 1024 * 1024

\* The files of a drop that onDrop's own tests let through.
Addable(dropped) ==
    Len(SelectSeq(dropped,
                  LAMBDA f : DropzoneAccepts(f) /\ f.type = "application/pdf"
                                 /\ f.size > 0))

\* C21: the merge list never holds more than MAX_FILES items, and a drop
\* that would exceed the limit adds as many files as fit and sets "Cannot
\* add more than 20 files.".
C21_DropFillsToLimit ==
    [][/\ Len(mergePDF'.items) <= MAX_FILES
       /\ \A dropped \in FullDrops :
             (/\ Len(mergePDF.items) + Addable(dropped) > MAX_FILES
              /\ onDrop(DropzoneAccepted(dropped))) =>
                 /\ Len(mergePDF'.items) = MAX_FILES
                 /\ mergePDF'.error = "Cannot add more than 20 files."]_vars

\* The part that holds: the list never exceeds MAX_FILES.
C21_ListWithinLimit == Len(mergePDF.items) <= MAX_FILES

\* C22: with an exam preset in force and a source image at least as large
\* as the preset in both dimensions, the image handleUpload produces has
\* exactly the preset's width and height.
C22_PresetSizeExact ==
    resizer.resizedImage # null =>
        LET out == resizer.resizedImage.val
        IN  (/\ out.cfg # null
             /\ out.bmp.width >= out.cfg.val.width
             /\ out.bmp.height >= out.cfg.val.height) =>
                /\ out.width = out.cfg.val.width
                /\ out.height = out.cfg.val.height

\* C23: for a bw x bh source and positive targets the output satisfies
\* 1 <= outW <= min(targetW, bw) and 1 <= outH <= min(targetH, bh); with a
\* target of 0 or none in either dimension the target is half the source
\* (rounded, a tie going up).
C23_OutputFitsTarget ==
    resizer.resizedImage # null =>
        LET out == resizer.resizedImage.val
            bw == out.bmp.width
            bh == out.bmp.height
            unusable == out.given.width = 0 \/ out.given.height = 0
            targetW == IF unusable THEN (bw + 1) \div 2 ELSE out.given.width
            targetH == IF unusable THEN (bh + 1) \div 2 ELSE out.given.height
        IN  (unusable \/ (out.given.width > 0 /\ out.given.height > 0)) =>
                /\ 1 <= out.width /\ out.width <= Min(targetW, bw)
                /\ 1 <= out.height /\ out.height <= Min(targetH, bh)

C23_Witness ==
    /\ resizer.resizedImage # null
    /\ resizer.resizedImage.val.cfg = null
    /\ resizer.resizedImage.val.given = [width |-> 5000, height |-> 300]
    /\ resizer.resizedImage.val.bmp.width = 4000
    /\ resizer.resizedImage.val.bmp.height = 3001
    /\ resizer.resizedImage.val.height = 300
    /\ resizer.resizedImage.val.width = 400

\* C26: in ImageReduce an object URL still held by originalImage or
\* resizedImage is never revoked.
C26_HeldUrlNotRevoked ==
    resizer.mounted => HeldUrls(resizer) \cap resizer.revoked = {}

\* The object URLs split() can create.
SplitUrls == {SplitEntry(f, i).url : f \in Files, i \in 0..(MaxPages - 1)}

\* C27: every object URL created by a split run is eventually revoked,
\* those of pages 1..k-1 of a run that fails on page k included.
C27_SplitUrlsRevoked ==
    \A u \in SplitUrls :
        (u \in splitPDF.liveUrls) ~> (u \notin splitPDF.liveUrls)

\* C24: whenever CompressPDF's resultUrl is non-null, the published result
\* was produced from the currently selected file, whatever the interleaving
\* of file selections with a compress run in flight.
\* (With no file selected the link is named optimized-file; the formula
\* speaks of the states in which a file is selected.)
C24_ResultOfSelectedFile ==
    (compressPDF.resultUrl # null /\ compressPDF.file # null) =>
        compressPDF.resultUrl.src = compressPDF.file

\* C25: the page count CompressPDF displays is null or the page count of
\* the currently selected file, whatever the interleaving of the page-count
\* reads of successive selections.
C25_PagesOfSelectedFile ==
    compressPDF.pages # null =>
        /\ compressPDF.file # null
        /\ compressPDF.pages = Some(compressPDF.file.numPages)

\* ... and the same of the page count SplitPDF displays.
C25_SplitPagesOfSelectedFile ==
    splitPDF.pages # null =>
        /\ splitPDF.file # null
        /\ splitPDF.pages = Some(splitPDF.file.numPages)

\* What mergePDFs() reads of a list of items: ids and files, in order.
MergeInputs(items) ==
    [k \in 1..Len(items) |-> [id |-> items[k].id, file |-> items[k].file]]

\* C28: whenever MergePDF's mergedUrl is non-null ("Merged ready"), the
\* merged document it points to is the merge of the current items list in
\* its current order: no add, remove or reorder leaves a stale result
\* downloadable.
C28_MergedOfCurrentItems ==
    (Mounted /\ mergePDF.mergedUrl # null) =>
        mergePDF.mergedUrl.src = MergeInputs(mergePDF.items)

\* A step of one of the three reorders.
MergeReorder ==
    \/ \E idx \in 0..(MaxItems - 1) : MergeMoveUp(idx)
    \/ \E idx \in 0..(MaxItems - 1) : MergeMoveDown(idx)
    \/ \E index \in 0..(MaxItems - 1) : onDropItem(index)

\* after is before with its entries in another order.
IsPermutation(before, after) ==
    /\ Len(after) = Len(before)
    /\ \E p \in [1..Len(before) -> 1..Len(before)] :
          /\ \A j, k \in 1..Len(before) : j # k => p[j] # p[k]
          /\ \A k \in 1..Len(before) : after[k] = before[p[k]]

\* C29: every reorder (move up, move down, drop on a row with the
\* remembered drag index) leaves the items list a permutation of the list
\* before it, with no undefined entry, after any sequence of drops,
\* removals and reorders.
C29_ReorderPermutes ==
    [][MergeReorder =>
          /\ IsPermutation(mergePDF.items, mergePDF'.items)
          /\ \A k \in 1..Len(mergePDF'.items) :
                mergePDF'.items[k] # undefined]_vars
====
